---- MODULE Spec2Model ----
(***************************************************************************)
(* A model of the paper-readar services:                                   *)
(*   - TextPreprocessor.clean_text of services/tts-service-v2/tts_engine.py*)
(*     (the rule-based text normaliser), specification SpecClean;          *)
(*   - the two-stage /process pipeline of services/text-processing/main.py *)
(*     with its startup and on-demand model loading, specification Spec.   *)
(*                                                                         *)
(* A text is a sequence of characters; a character is a one-character      *)
(* string, or a code-point name such as "U+201C" for a character outside   *)
(* ASCII.                                                                  *)
(***************************************************************************)
EXTENDS Integers, Sequences, FiniteSets, TLC

VARIABLES
    \* ---- TextPreprocessor.clean_text (tts_engine.py)
    text,              \* the argument of the first clean_text call
    remove_citations,  \* its flag, the same on both calls
    first_call,        \* outcome of clean_text(text, remove_citations)
    second_call,       \* outcome of clean_text applied to the first call's result
    pp_pc,             \* "ready" -> "cleaned" -> "recleaned"
    heading,           \* the argument of should_skip_section
    skip_call,         \* whether should_skip_section was called, and its result
    \* ---- text-processing service (text-processing/main.py)
    LOAD_BOTH_MODELS,  \* configuration, fixed at process start
    stage_tokenizer,   \* stage -> "None" | "loaded"  (stage1_tokenizer, stage2_tokenizer)
    stage_model,       \* stage -> "None" | "loaded"  (stage1_model, stage2_model)
    stage_pipeline,    \* stage -> "None" | "loaded"  (stage1_pipeline, stage2_pipeline)
    phase,             \* "boot" before lifespan has run, "serving" after
    pc,                \* position of the /process handler on the event loop
    request,           \* the ProcessRequest being handled
    stage1_output,     \* local of process_text
    stage2_output,     \* local of process_text
    generations,       \* the generation calls made for this request, in order
    response,          \* what the caller of /process receives
    startup_log,       \* what lifespan logged about the loading
    backend_loads,     \* the backend load calls of the last lifespan or load-stage run
    admin_response,    \* what the last caller of /health, /load-*, /unload-* received
    \* ---- TTSEngine (tts-service-v2/tts_engine.py)
    engine_model,      \* self._model: "None" | "Kokoro"
    available_voices,  \* self._available_voices: None | the list of voice ids
    default_voice,     \* self.default_voice
    default_speed,     \* self.default_speed, in hundredths
    engine_call,       \* the last call of a TTSEngine method and how it ended
    \* ---- tts-service-v2 (tts-service-v2/main.py)
    tts_engine,        \* the global tts_engine: "None" | "TTSEngine"
    api_phase,         \* "boot" before lifespan has run, "serving" after
    api_request,       \* the request of the last call of /synthesize
    api_response,      \* what the last caller of /health or /synthesize received
    \* ---- tts-service (tts-service/main.py)
    kokoro_model,      \* the global kokoro_model: "None" | "Kokoro" | "FallbackTTS"
    tts_phase,         \* "boot" before startup_event has run, "serving" after
    tts_load_calls,    \* the load_kokoro_model calls of the last handler run
    tts_response,      \* what the last caller of /generate or /health received
    tts_call           \* the request of the last /generate and the audio made for it

pp_vars == <<text, remove_citations, first_call, second_call, pp_pc,
             heading, skip_call>>
svc_vars == <<LOAD_BOTH_MODELS, stage_tokenizer, stage_model, stage_pipeline,
              phase, pc, request, stage1_output, stage2_output, generations,
              response, startup_log, backend_loads, admin_response>>
eng_vars == <<engine_model, available_voices, default_voice, default_speed,
              engine_call>>
api_vars == <<tts_engine, api_phase, api_request, api_response>>
tts_vars == <<kokoro_model, tts_phase, tts_load_calls, tts_response,
              tts_call>>
vars == <<pp_vars, svc_vars, eng_vars, api_vars, tts_vars>>

(***************************************************************************)
(* Characters                                                              *)
(***************************************************************************)
Upper == {"A","B","C","D","E","F","G","H","I","J","K","L","M",
          "N","O","P","Q","R","S","T","U","V","W","X","Y","Z"}
Lower == {"a","b","c","d","e","f","g","h","i","j","k","l","m",
          "n","o","p","q","r","s","t","u","v","w","x","y","z"}
Digit == {"0","1","2","3","4","5","6","7","8","9"}
\* \s and str.strip(): the ASCII white space TLA+ strings can name
WhiteSpace == {" ", "\t", "\n", "\r", "\f"}
\* \w
WordChar == Upper \cup Lower \cup Digit \cup {"_"}
\* [.,;:!?]
Punct == {".", ",", ";", ":", "!", "?"}
\* the smart quotes of lines 112-113
LDQUO == "U+201C"
RDQUO == "U+201D"
LSQUO == "U+2018"
RSQUO == "U+2019"
\* the plus-minus sign
PLUSMINUS == "U+00B1"

\* the characters of an ASCII string, as a text
Chars(str) == [i \in 1..Len(str) |-> SubSeq(str, i, i)]

(***************************************************************************)
(* Regular expressions, matched as Python's re matches them: a             *)
(* backtracking search that tries the alternatives in priority order       *)
(* (greedy repetition first) and takes the first that succeeds.            *)
(***************************************************************************)
Chr(S)  == [t |-> "chr", set |-> S]          \* [...]
Neg(S)  == [t |-> "neg", set |-> S]          \* [^...]
Cat(rs) == [t |-> "cat", rs |-> rs]          \* r1 r2 ...
Alt(rs) == [t |-> "alt", rs |-> rs]          \* r1 | r2 | ...
Star(r) == [t |-> "star", r |-> r]           \* r*
Opt(r)  == [t |-> "opt", r |-> r]            \* r?
WordB   == [t |-> "wordb"]                   \* \b
Plus(r) == Cat(<<r, Star(r)>>)               \* r+
Rep(r, n) == Cat([k \in 1..n |-> r])         \* r{n}
AtLeast(r, n) == Cat(<<Rep(r, n), Star(r)>>) \* r{n,}
Lit(str) == Cat([k \in 1..Len(str) |-> Chr({SubSeq(str, k, k)})])

IsWordAt(s, i) == i >= 1 /\ i <= Len(s) /\ s[i] \in WordChar

\* the positions i..n of s that a repetition of the character class r can
\* end at: the run of characters of the class that starts at position i
RunEnd(r, s, i) ==
    LET Stops(j) == j > Len(s) \/ (IF r.t = "chr" THEN s[j] \notin r.set
                                                  ELSE s[j] \in r.set)
    IN  CHOOSE j \in i..(Len(s) + 1) : Stops(j) /\ \A k \in i..(j - 1) : ~Stops(k)

RECURSIVE Ends(_, _, _)
RECURSIVE Thread(_, _, _)
\* the ends of r tried from each of the positions starts, in order
Thread(r, s, starts) ==
    IF starts = <<>> THEN <<>>
    ELSE IF Len(starts) = 1 THEN Ends(r, s, starts[1])
    ELSE LET h == Len(starts) \div 2
         IN  Thread(r, s, SubSeq(starts, 1, h))
             \o Thread(r, s, SubSeq(starts, h + 1, Len(starts)))

\* Ends(r, s, i): the positions just after a match of r that starts at
\* position i of s, in the order in which the backtracking matcher tries them
Ends(r, s, i) ==
    CASE r.t = "chr" ->
            IF i <= Len(s) /\ s[i] \in r.set THEN <<i + 1>> ELSE <<>>
      [] r.t = "neg" ->
            IF i <= Len(s) /\ s[i] \notin r.set THEN <<i + 1>> ELSE <<>>
      [] r.t = "cat" ->
            IF r.rs = <<>> THEN <<i>>
            ELSE Thread(Cat(Tail(r.rs)), s, Ends(Head(r.rs), s, i))
      [] r.t = "alt" ->
            IF r.rs = <<>> THEN <<>>
            ELSE Ends(Head(r.rs), s, i) \o Ends(Alt(Tail(r.rs)), s, i)
      [] r.t = "star" ->
            IF r.r.t \in {"chr", "neg"}
            THEN \* greedy: the whole run first, then one character less, ...
                 LET e == RunEnd(r.r, s, i) IN [k \in 1..(e - i + 1) |-> e - k + 1]
            ELSE Thread(r, s, SelectSeq(Ends(r.r, s, i), LAMBDA e : e > i)) \o <<i>>
      [] r.t = "opt" ->
            Ends(r.r, s, i) \o <<i>>
      [] r.t = "wordb" ->
            IF IsWordAt(s, i - 1) # IsWordAt(s, i) THEN <<i>> ELSE <<>>

\* re.match at position i: the end of the first successful try, 0 for no match
MatchEnd(r, s, i) == LET es == Ends(r, s, i) IN IF es = <<>> THEN 0 ELSE Head(es)

\* the replacement arguments of the re.sub calls
Delete(m) == <<>>                               \* ''
EquationToken(m) == Chars(" [equation] ")       \* ' [equation] '
OneSpace(m) == <<" ">>                          \* ' '
\* r'\1' at line 116: group 1 is the last character of the match
KeepPunct(m) == <<m[Len(m)]>>
\* r'\1 \2' at line 119: groups 1 and 2 are the two characters of the match
PunctSpaceLetter(m) == <<m[1], " ", m[2]>>
\* the expansion of the replacement argument repl for the matched text m
Expand(repl, m) ==
    CASE repl = "Delete"           -> Delete(m)
      [] repl = "EquationToken"    -> EquationToken(m)
      [] repl = "OneSpace"         -> OneSpace(m)
      [] repl = "KeepPunct"        -> KeepPunct(m)
      [] repl = "PunctSpaceLetter" -> PunctSpaceLetter(m)

\* re.sub(r, repl, s): the leftmost non-overlapping matches of r, each
\* replaced by the expansion of repl.  No pattern of the program matches the
\* empty string.
Sub(r, repl, s) ==
    LET n == Len(s)
        \* the positions where a match can start, in increasing order
        starts == SelectSeq([j \in 1..n |-> j], LAMBDA j : MatchEnd(r, s, j) > j)
        RECURSIVE From(_)
        \* the rewritten text from position i on
        From(i) ==
            IF \E k \in 1..Len(starts) : starts[k] >= i
            THEN LET j == starts[CHOOSE k \in 1..Len(starts) :
                                    /\ starts[k] >= i
                                    /\ \A l \in 1..(k - 1) : starts[l] < i]
                     e == MatchEnd(r, s, j)
                 IN  SubSeq(s, i, j - 1) \o Expand(repl, SubSeq(s, j, e - 1)) \o From(e)
            ELSE SubSeq(s, i, n)
    IN  From(1)

\* re.search(r, s) is not None
Search(r, s) == \E i \in 1..Len(s) : Ends(r, s, i) # <<>>

\* str.replace(old, new) for a single character old
Replace(s, old, new) == [i \in 1..Len(s) |-> IF s[i] = old THEN new ELSE s[i]]

\* str.strip(): the text between its first and its last character that is
\* not white space
Strip(s) ==
    LET keep == {i \in 1..Len(s) : s[i] \notin WhiteSpace}
    IN  IF keep = {} THEN <<>>
        ELSE SubSeq(s, CHOOSE i \in keep : \A j \in keep : i <= j,
                       CHOOSE i \in keep : \A j \in keep : i >= j)

\* needle in haystack
Contains(haystack, needle) ==
    \E i \in 1..(Len(haystack) - Len(needle) + 1) :
        SubSeq(haystack, i, i + Len(needle) - 1) = needle

(***************************************************************************)
(* TextPreprocessor.PATTERNS                                               *)
(***************************************************************************)
\* \([A-Z][a-z]+(?:\s+et\s+al\.?)?,?\s+\d{4}[a-z]?\)
citations_parens ==
    Cat(<<Lit("("), Chr(Upper), Plus(Chr(Lower)),
          Opt(Cat(<<Plus(Chr(WhiteSpace)), Lit("et"), Plus(Chr(WhiteSpace)),
                    Lit("al"), Opt(Lit("."))>>)),
          Opt(Lit(",")), Plus(Chr(WhiteSpace)), Rep(Chr(Digit), 4),
          Opt(Chr(Lower)), Lit(")")>>)
\* \[\d+(?:,\s*\d+)*\]
citations_brackets ==
    Cat(<<Lit("["), Plus(Chr(Digit)),
          Star(Cat(<<Lit(","), Star(Chr(WhiteSpace)), Plus(Chr(Digit))>>)),
          Lit("]")>>)
\* \s+et\s+al\.
et_al ==
    Cat(<<Plus(Chr(WhiteSpace)), Lit("et"), Plus(Chr(WhiteSpace)), Lit("al.")>>)
\* https?://\S+
urls == Cat(<<Lit("http"), Opt(Lit("s")), Lit("://"), Plus(Neg(WhiteSpace))>>)
\* \b[A-Za-z0-9._%+-]+@[A-Za-z0-9.-]+\.[A-Z|a-z]{2,}\b
emails ==
    Cat(<<WordB,
          Plus(Chr(Upper \cup Lower \cup Digit \cup {".", "_", "%", "+", "-"})),
          Lit("@"),
          Plus(Chr(Upper \cup Lower \cup Digit \cup {".", "-"})),
          Lit("."),
          AtLeast(Chr(Upper \cup Lower \cup {"|"}), 2),
          WordB>>)
\* \$[^$]+\$
latex_inline == Cat(<<Lit("$"), Plus(Neg({"$"})), Lit("$")>>)
\* \$\$[^$]+\$\$
latex_display == Cat(<<Lit("$$"), Plus(Neg({"$"})), Lit("$$")>>)
\* \\[a-zA-Z]+\{[^}]*\}
latex_commands ==
    Cat(<<Lit("\\"), Plus(Chr(Upper \cup Lower)), Lit("{"), Star(Neg({"}"})), Lit("}")>>)
\* \s+
multiple_spaces == Plus(Chr(WhiteSpace))
\* \((?:[A-Z]{2,}|[A-Z][a-z]+)\)
parenthetical_abbrev ==
    Cat(<<Lit("("),
          Alt(<<AtLeast(Chr(Upper), 2), Cat(<<Chr(Upper), Plus(Chr(Lower))>>)>>),
          Lit(")")>>)
\* \s+([.,;:!?])           (line 116)
space_before_punct == Cat(<<Plus(Chr(WhiteSpace)), Chr(Punct)>>)
\* ([.,;:!?])([A-Za-z])    (line 119)
punct_then_letter == Cat(<<Chr(Punct), Chr(Upper \cup Lower)>>)

(***************************************************************************)
(* TextPreprocessor.clean_text                                             *)
(***************************************************************************)
\* the rewrite steps of lines 90-122, in the order the code runs them
RewriteSteps(rc) ==
    (IF rc THEN <<"citations_parens", "citations_brackets", "et_al">> ELSE <<>>)
    \o <<"urls", "emails", "latex_display", "latex_inline", "latex_commands",
         "parenthetical_abbrev", "multiple_spaces", "quotes",
         "space_before_punct", "space_after_punct", "strip">>

\* one statement `cleaned = ...` of lines 92-122
ApplyStep(step, s) ==
    CASE step = "citations_parens"     -> Sub(citations_parens, "Delete", s)
      [] step = "citations_brackets"   -> Sub(citations_brackets, "Delete", s)
      [] step = "et_al"                -> Sub(et_al, "Delete", s)
      [] step = "urls"                 -> Sub(urls, "Delete", s)
      [] step = "emails"               -> Sub(emails, "Delete", s)
      [] step = "latex_display"        -> Sub(latex_display, "EquationToken", s)
      [] step = "latex_inline"         -> Sub(latex_inline, "EquationToken", s)
      [] step = "latex_commands"       -> Sub(latex_commands, "Delete", s)
      [] step = "parenthetical_abbrev" -> Sub(parenthetical_abbrev, "Delete", s)
      [] step = "multiple_spaces"      -> Sub(multiple_spaces, "OneSpace", s)
      [] step = "quotes"               ->
            Replace(Replace(Replace(Replace(s, LDQUO, "\""), RDQUO, "\""),
                            LSQUO, "'"), RSQUO, "'")
      [] step = "space_before_punct"   -> Sub(space_before_punct, "KeepPunct", s)
      [] step = "space_after_punct"    -> Sub(punct_then_letter, "PunctSpaceLetter", s)
      [] step = "strip"                -> Strip(s)

\* the statements of lines 92-122 one after the other, each working on the
\* value the one before it assigned to `cleaned`
RECURSIVE ApplySteps(_, _)
ApplySteps(steps, s) ==
    IF steps = <<>> THEN s
    ELSE \* the value of `cleaned` is computed once and handed on
         CHOOSE y \in {ApplySteps(Tail(steps), x) :
                          x \in {ApplyStep(Head(steps), s)}} : TRUE

\* the guard without its second disjunct: only the empty text is refused
IsBlank_NoStrip(s) == s = <<>>

\* the guard of line 83: not text or not text.strip()
IsBlank(s) == s = <<>> \/ Strip(s) = <<>>

\* the length check with its bound one too small
TooShort_OffByOne(cleaned) == Len(cleaned) < 2

\* the check of line 130 on the rewritten text: len(cleaned) < 3
TooShort(cleaned) == Len(cleaned) < 3

\* what a call of clean_text leaves behind: whether it raised
\* TextPreprocessingError and with which message, the text it returned, the
\* rewrite steps it ran and the last value of its local `cleaned`
Raised(msg, steps, cleaned) ==
    [raised |-> TRUE, error |-> msg, value |-> <<>>, applied |-> steps,
     cleaned |-> cleaned]
Returned(steps, cleaned) ==
    [raised |-> FALSE, error |-> "none", value |-> cleaned, applied |-> steps,
     cleaned |-> cleaned]

\* lines 124-136
CheckCleaned(steps, cleaned) ==
    IF cleaned = <<>>
    THEN Raised("Text became empty after preprocessing", steps, cleaned)
    ELSE IF TooShort(cleaned)
    THEN Raised("Text too short after preprocessing", steps, cleaned)
    ELSE Returned(steps, cleaned)

clean_text(s, rc) ==
    IF IsBlank(s) THEN Raised("Text is empty", <<>>, s)
    ELSE CHOOSE y \in {CheckCleaned(RewriteSteps(rc), cleaned) :
                          cleaned \in {ApplySteps(RewriteSteps(rc), s)}} : TRUE

(***************************************************************************)
(* The texts clean_text is run on                                          *)
(***************************************************************************)
\* the most fragments an input text is put together from
MaxFrags == 3

\* pieces of scientific prose: white space, a word, punctuation, an
\* author-year citation, the parts of a numeric citation list, "et al.", a
\* parenthetical abbreviation and a typesetting command with its argument
Vocab ==
    <<Chars(" "), Chars("ab"), Chars("."), Chars("(Ab 2020)"), Chars("[1"),
      Chars("]"), Chars(",2]"), Chars("et al."), Chars("(TT)"), Chars("\\x{cd}")>>

\* the texts of at most MaxFrags fragments
FragTexts ==
    LET RECURSIVE Join(_)
        Join(frags) == IF frags = <<>> THEN <<>> ELSE Head(frags) \o Join(Tail(frags))
        TextsOf(n) == {Join([k \in 1..n |-> Vocab[f[k]]]) : f \in [1..n -> 1..Len(Vocab)]}
    IN  UNION {TextsOf(n) : n \in 0..MaxFrags}

\* the inputs of the unit tests of TextPreprocessor, and white space other
\* than the blank
SmithCitation == Chars("(Smith, 2020)")
\* a sentence with both kinds of citation and a symbol
ResultsSentence ==
    Chars("Results show (Smith, 2020) a 65% ") \o <<PLUSMINUS>>
        \o Chars(" 5% effect [1,2].")
\* a sentence with a word set in bold
BoldSentence == Chars("This is \\textbf{bold text} here.")
SampleTexts ==
    {SmithCitation, ResultsSentence, BoldSentence,
     Chars("This is a fact (Smith, 2020) that is well known."),
     Chars("Multiple studies [1, 2, 3] have shown this."),
     Chars("Research by Johnson et al. indicates this."),
     Chars("Visit https://example.com for more info."),
     Chars("Contact us at test@example.com for details."),
     Chars("The formula $x^2 + y^2 = z^2$ is well known."),
     Chars("Consider the equation: $$\\int_0^1 f(x) dx$$ which shows..."),
     <<LDQUO>> \o Chars("Hello") \o <<RDQUO>> \o Chars(" and ") \o <<LSQUO>>
        \o Chars("world") \o <<RSQUO>> \o Chars(" with quotes."),
     Chars("Hello  world.  This is   a test."),
     Chars("\n"), Chars(" \t\n"), Chars("\n ab \n")}

Inputs == FragTexts \cup SampleTexts

\* Kokoro.create() was not called
NotCalled == [raises |-> FALSE, samples |-> 0, sample_rate |-> -1]
(***************************************************************************)
(* text-processing/main.py: values                                         *)
(***************************************************************************)
\* the two stages: 1 is the cleanup model, 2 the reorganization model
Stages == 1..2
\* a module-level model handle: None, or the object a load call returned
Unloaded == "None"
Loaded == "loaded"
\* Python's None where a text may stand; no character has this name
None == <<"<None>">>
\* no /process call has answered yet
NoResponse == [kind |-> "none"]
\* no request has been made yet
NoRequest == [text |-> <<>>]
\* no call of /health, /load-* or /unload-* has answered yet
NoAdminCall == [endpoint |-> "none"]

(***************************************************************************)
(* TextPreprocessor: clean_text, and clean_text again on what it returned  *)
(***************************************************************************)
NoCall ==
    [raised |-> FALSE, error |-> "not called", value |-> <<>>, applied |-> <<>>,
     cleaned |-> <<>>]

\* cleaned = TextPreprocessor.clean_text(text, remove_citations)
CleanText ==
    /\ pp_pc = "ready"
    /\ first_call' = clean_text(text, remove_citations)
    /\ pp_pc' = "cleaned"
    /\ UNCHANGED <<text, remove_citations, second_call, heading, skip_call,
                   svc_vars, eng_vars, api_vars, tts_vars>>

\* TextPreprocessor.clean_text(cleaned, remove_citations)
CleanAgain ==
    /\ pp_pc = "cleaned"
    /\ ~first_call.raised
    /\ second_call' = clean_text(first_call.value, remove_citations)
    /\ pp_pc' = "recleaned"
    /\ UNCHANGED <<text, remove_citations, first_call, heading, skip_call,
                   svc_vars, eng_vars, api_vars, tts_vars>>

\* the module-level state of text-processing/main.py, lines 32-39, before
\* its lifespan has run
ServiceInit ==
    /\ stage_tokenizer = [k \in Stages |-> Unloaded]
    /\ stage_model = [k \in Stages |-> Unloaded]
    /\ stage_pipeline = [k \in Stages |-> Unloaded]
    /\ phase = "boot"
    /\ pc = "idle"
    /\ request = [text |-> <<>>, skip_stage1 |-> FALSE, skip_stage2 |-> FALSE]
    /\ stage1_output = None
    /\ stage2_output = None
    /\ generations = <<>>
    /\ response = NoResponse
    /\ startup_log = <<>>
    /\ backend_loads = <<>>
    /\ admin_response = NoAdminCall

\* TTSEngine.__init__ with its default arguments and auto_load=False:
\* tts_engine.py lines 194-219
NoEngineCall == [op |-> "none", raised |-> "none"]
DefaultSpeed == 100
EngineInit ==
    /\ engine_model = Unloaded
    /\ available_voices = None
    /\ default_voice = "af_sarah"
    /\ default_speed = DefaultSpeed
    /\ engine_call = NoEngineCall

\* the module-level state of tts-service-v2/main.py (line 37) before its
\* lifespan
ApiInit ==
    /\ tts_engine = Unloaded
    /\ api_phase = "boot"
    /\ api_request = NoRequest
    /\ api_response = NoAdminCall

\* the module-level state of tts-service/main.py (line 42) before its
\* startup event
TtsServiceInit ==
    /\ kokoro_model = Unloaded
    /\ tts_phase = "boot"
    /\ tts_load_calls = <<>>
    /\ tts_response = NoAdminCall
    /\ tts_call = [request |-> NoRequest, audio |-> NotCalled]

(***************************************************************************)
(* TextPreprocessor.should_skip_section                                    *)
(***************************************************************************)
\* SKIP_SECTIONS, lines 58-66
SKIP_SECTIONS ==
    <<Chars("references"), Chars("bibliography"), Chars("citations"),
      Chars("appendix"), Chars("supplementary material"),
      Chars("acknowledgments"), Chars("acknowledgements")>>

\* str.lower(), for the characters of this model
LowerChar(c) ==
    IF c \in Upper
    THEN Chars("abcdefghijklmnopqrstuvwxyz")[
            CHOOSE i \in 1..26 : Chars("ABCDEFGHIJKLMNOPQRSTUVWXYZ")[i] = c]
    ELSE c
lower(s) == [i \in 1..Len(s) |-> LowerChar(s[i])]

\* line 158, with a search anywhere in the text for the prefix test
startswith_Anywhere(s, prefix) == Contains(s, prefix)

\* str.startswith(prefix)
startswith(s, prefix) ==
    Len(prefix) <= Len(s) /\ SubSeq(s, 1, Len(prefix)) = prefix

\* should_skip_section(text), lines 143-161: the loop over SKIP_SECTIONS
\* from its i-th entry on returns at the first entry text_lower starts with
should_skip_section(txt) ==
    LET text_lower == Strip(lower(txt))
        RECURSIVE SkipLoop(_)
        SkipLoop(i) ==
            IF i > Len(SKIP_SECTIONS) THEN FALSE
            ELSE IF startswith(text_lower, SKIP_SECTIONS[i]) THEN TRUE
            ELSE SkipLoop(i + 1)
    IN  SkipLoop(1)

\* should_skip_section has not been called
NoSkipCall == [called |-> FALSE, value |-> FALSE]

\* a call of the class method: it reads its argument and the class
\* attribute and assigns only locals
ShouldSkipSection ==
    /\ ~skip_call.called
    /\ skip_call' = [called |-> TRUE, value |-> should_skip_section(heading)]
    /\ UNCHANGED <<text, remove_citations, first_call, second_call, pp_pc,
                   heading, svc_vars, eng_vars, api_vars, tts_vars>>

\* the headings tried: the section names and near misses of them, in lower
\* case, capitalized and in upper case, after white space or not, followed
\* by more text or not (test_tts_engine.py, lines 98-112), and texts that
\* hold a section name later on
Headings ==
    LET UpperChar(c) ==
            IF c \in Lower
            THEN Chars("ABCDEFGHIJKLMNOPQRSTUVWXYZ")[
                    CHOOSE i \in 1..26 : Chars("abcdefghijklmnopqrstuvwxyz")[i] = c]
            ELSE c
        upper(s) == [i \in 1..Len(s) |-> UpperChar(s[i])]
        capitalize(s) == [i \in 1..Len(s) |-> IF i = 1 THEN UpperChar(s[i]) ELSE s[i]]
        words == {SKIP_SECTIONS[i] : i \in 1..Len(SKIP_SECTIONS)}
                    \cup {Chars("reference"), Chars("acknowledgment"),
                          Chars("supplementary  material"), Chars("introduction")}
    IN  {lead \o cased \o tail :
            lead \in {<<>>, Chars(" "), Chars("\n\t")},
            cased \in UNION {{w, capitalize(w), upper(w)} : w \in words},
            tail \in {<<>>, Chars("\n"), Chars(" A"), Chars("s")}}
    \cup {<<>>, Chars("  "), Chars("This refers to something"),
          Chars("See References"), Chars("Introduction")}

PreprocessorIdle ==
    /\ text = <<>>
    /\ remove_citations = TRUE
    /\ first_call = NoCall
    /\ second_call = NoCall
    /\ pp_pc = "ready"
    /\ heading = <<>>
    /\ skip_call = NoSkipCall

InitClean ==
    /\ text \in Inputs
    /\ remove_citations \in BOOLEAN
    /\ first_call = NoCall
    /\ second_call = NoCall
    /\ pp_pc = "ready"
    /\ heading = <<>>
    /\ skip_call = NoSkipCall
    /\ LOAD_BOTH_MODELS = TRUE
    /\ ServiceInit
    /\ EngineInit
    /\ ApiInit
    /\ TtsServiceInit

SpecClean == InitClean /\ [][CleanText \/ CleanAgain]_vars

\* should_skip_section called once on each heading
InitSkip ==
    /\ heading \in Headings
    /\ skip_call = NoSkipCall
    /\ text = <<>>
    /\ remove_citations = TRUE
    /\ first_call = NoCall
    /\ second_call = NoCall
    /\ pp_pc = "ready"
    /\ LOAD_BOTH_MODELS = TRUE
    /\ ServiceInit
    /\ EngineInit
    /\ ApiInit
    /\ TtsServiceInit

SpecSkip == InitSkip /\ [][ShouldSkipSection]_vars

(***************************************************************************)
(* Claims about TextPreprocessor.clean_text                                *)
(***************************************************************************)
\* every character of s is white space (s may be empty)
OnlyWhiteSpace(s) == \A i \in 1..Len(s) : s[i] \in WhiteSpace

\* C1: clean_text applied to a text it returned succeeds and returns that
\* text unchanged (idempotence), the flag being the same on both calls.
C1_Idempotent ==
    pp_pc = "recleaned" =>
        /\ ~second_call.raised
        /\ second_call.value = first_call.value

\* the citation spans of a text: the matches of the parenthetical
\* author-year pattern and of the bracketed numeric pattern
CitationSpans(s) ==
    {SubSeq(s, i, MatchEnd(citations_parens, s, i) - 1) :
        i \in {j \in 1..Len(s) : MatchEnd(citations_parens, s, j) > 0}}
    \cup
    {SubSeq(s, i, MatchEnd(citations_brackets, s, i) - 1) :
        i \in {j \in 1..Len(s) : MatchEnd(citations_brackets, s, j) > 0}}

\* C2: for a text that contains a parenthetical author-year citation or a
\* bracketed numeric citation list, what clean_text returns with citation
\* removal on contains neither that span nor the phrase "et al.".
C2_CitationsRemoved ==
    (pp_pc # "ready" /\ remove_citations /\ ~first_call.raised
        /\ CitationSpans(text) # {}) =>
        /\ \A span \in CitationSpans(text) : ~Contains(first_call.value, span)
        /\ ~Contains(first_call.value, Chars("et al."))

\* C3: clean_text raises the collapse error whenever the text left after
\* all the rewrite steps is empty or shorter than 3 characters, and never
\* returns such a text; "(Smith, 2020)" with citation removal raises it.
C3_CollapseRaises ==
    pp_pc # "ready" =>
        /\ (~first_call.raised => Len(first_call.value) >= 3)
        /\ (first_call.applied # <<>> /\ Len(first_call.cleaned) < 3 =>
                /\ first_call.raised
                /\ first_call.error \in {"Text became empty after preprocessing",
                                         "Text too short after preprocessing"})
        /\ (text = SmithCitation /\ remove_citations =>
                /\ first_call.raised
                /\ first_call.error = "Text became empty after preprocessing")

\* the citation-only text has been cleaned and the call raised
C3_Witness ==
    /\ pp_pc = "cleaned"
    /\ text = SmithCitation
    /\ remove_citations
    /\ first_call.raised
    /\ first_call.applied # <<>>
    /\ first_call.cleaned = <<>>

\* C4: on an empty or white-space-only text clean_text raises, having run
\* no rewrite step and returning no text.
C4_BlankInputRaises ==
    (pp_pc # "ready" /\ OnlyWhiteSpace(text)) =>
        /\ first_call.raised
        /\ first_call.error = "Text is empty"
        /\ first_call.applied = <<>>
        /\ first_call.cleaned = text
        /\ first_call.value = <<>>

\* a white-space-only, non-empty text has been given to clean_text
C4_Witness ==
    /\ pp_pc = "cleaned"
    /\ text # <<>>
    /\ OnlyWhiteSpace(text)
    /\ first_call.raised

(***************************************************************************)
(* text-processing/main.py: startup, on-demand loading and unloading       *)
(***************************************************************************)
model_vars == <<stage_tokenizer, stage_model, stage_pipeline>>
process_vars == <<pc, request, stage1_output, stage2_output, generations, response>>
admin_vars == <<startup_log, backend_loads, admin_response>>

\* a load that assigns the pipeline first and the tokenizer last
AfterLoadCalls_PipelineFirst(handles, k, n, call) ==
    [handles EXCEPT ![k] =
        IF n >= (call - ((call - 1) % 3)) + 2 - ((call - 1) % 3) THEN Loaded ELSE @]

\* the handles of stage k after the first n of its three load calls
\* (tokenizer, model, pipeline) have returned and the next one, if any, raised
AfterLoadCalls(handles, k, n, call) ==
    [handles EXCEPT ![k] = IF n >= call THEN Loaded ELSE @]

\* the three backend calls that load stage k, in the order of lines 62-76,
\* 80-94, 189-196 and 209-216: AutoTokenizer.from_pretrained,
\* AutoModelForCausalLM.from_pretrained, pipeline
LoadCalls(k) ==
    <<[stage |-> k, call |-> "tokenizer"],
      [stage |-> k, call |-> "model"],
      [stage |-> k, call |-> "pipeline"]>>

\* the calls made when the first n of them return and the next one raises
CallsMade(calls, n) ==
    SubSeq(calls, 1, IF n < Len(calls) THEN n + 1 ELSE Len(calls))

\* a startup whose failure is not logged
StartupLog_Silent(n) ==
    (IF n >= 3 THEN <<"Stage 1 model loaded (~10GB RAM)">> ELSE <<>>)
    \o (IF n >= 6
        THEN <<"Stage 2 model loaded (~28GB RAM)",
               "Both models loaded successfully (~38GB total RAM)",
               "Text processing service ready">>
        ELSE <<>>)

\* what lifespan logs about the loading when n of the six calls returned
\* (lines 77, 95, 96, 101 and 103-104)
StartupLog(n) ==
    (IF n >= 3 THEN <<"Stage 1 model loaded (~10GB RAM)">> ELSE <<>>)
    \o (IF n >= 6
        THEN <<"Stage 2 model loaded (~28GB RAM)",
               "Both models loaded successfully (~38GB total RAM)",
               "Text processing service ready">>
        ELSE <<"ERROR Failed to load models",
               "ERROR Service will start but processing will fail until models are loaded">>)

\* a handler runs when the event loop is free: every handler is an
\* `async def` without an await, so it runs from its first line to its last
\* before the loop takes up another request.  The handlers run in threads:
EventLoopFree_Threaded == TRUE

\* no /process handler is on the event loop
EventLoopFree == pc = "idle"

\* lifespan, lines 43-107: in production mode the six load calls in order,
\* stage 1 then stage 2; an exception of any of them ends the loading and is
\* only logged.  n is the number of calls that returned.
lifespan ==
    /\ phase = "boot"
    /\ phase' = "serving"
    /\ IF LOAD_BOTH_MODELS
       THEN \E n \in 0..6 :
               /\ stage_tokenizer' =
                    AfterLoadCalls(AfterLoadCalls(stage_tokenizer, 1, n, 1), 2, n, 4)
               /\ stage_model' =
                    AfterLoadCalls(AfterLoadCalls(stage_model, 1, n, 2), 2, n, 5)
               /\ stage_pipeline' =
                    AfterLoadCalls(AfterLoadCalls(stage_pipeline, 1, n, 3), 2, n, 6)
               /\ backend_loads' = CallsMade(LoadCalls(1) \o LoadCalls(2), n)
               /\ startup_log' = StartupLog(n)
       ELSE /\ UNCHANGED <<model_vars, backend_loads>>
            /\ startup_log' = <<"Models will be loaded on-demand (testing mode)",
                                "Text processing service ready">>
    /\ UNCHANGED <<LOAD_BOTH_MODELS, process_vars, admin_response, pp_vars, eng_vars, api_vars, tts_vars>>

\* the JSON body {"success": True, "message": ...} of a load or unload call
AdminOk(endpoint, message) ==
    [endpoint |-> endpoint, status_code |-> 200, success |-> TRUE,
     message |-> message]
\* raise HTTPException(status_code=500, detail=str(e)), lines 300, 310, 320, 330
AdminError(endpoint) ==
    [endpoint |-> endpoint, status_code |-> 500, success |-> FALSE,
     message |-> "str(e)"]

LoadEndpoint(k) == IF k = 1 THEN "/load-stage1" ELSE "/load-stage2"
UnloadEndpoint(k) == IF k = 1 THEN "/unload-stage1" ELSE "/unload-stage2"
LoadedMessage(k) == IF k = 1 THEN "Stage 1 model loaded" ELSE "Stage 2 model loaded"
UnloadedMessage(k) ==
    IF k = 1 THEN "Stage 1 model unloaded" ELSE "Stage 2 model unloaded"

\* a load that reloads a stage whatever its state
AlreadyLoaded_Never(k) == FALSE

\* lines 184 and 204: stageK_pipeline is not None
AlreadyLoaded(k) == stage_pipeline[k] # Unloaded

\* a load that makes room by clearing the other stage first
load_stage_Evicting(k) ==
    /\ phase = "serving"
    /\ EventLoopFree
    /\ stage_tokenizer' = [j \in Stages |-> IF j = k THEN Loaded ELSE Unloaded]
    /\ stage_model' = [j \in Stages |-> IF j = k THEN Loaded ELSE Unloaded]
    /\ stage_pipeline' = [j \in Stages |-> IF j = k THEN Loaded ELSE Unloaded]
    /\ backend_loads' = LoadCalls(k)
    /\ admin_response' = AdminOk(LoadEndpoint(k), LoadedMessage(k))
    /\ UNCHANGED <<LOAD_BOTH_MODELS, phase, process_vars, startup_log, pp_vars, eng_vars, api_vars, tts_vars>>

\* POST /load-stage1, /load-stage2 (lines 293-310) calling load_stage1_model,
\* load_stage2_model (lines 180-217): nothing when the pipeline is set;
\* otherwise the three load calls, of which the first n return
load_stage(k) ==
    /\ phase = "serving"
    /\ EventLoopFree
    /\ IF AlreadyLoaded(k)
       THEN /\ UNCHANGED model_vars
            /\ backend_loads' = <<>>
            /\ admin_response' = AdminOk(LoadEndpoint(k), LoadedMessage(k))
       ELSE \E n \in 0..3 :
               /\ stage_tokenizer' = AfterLoadCalls(stage_tokenizer, k, n, 1)
               /\ stage_model' = AfterLoadCalls(stage_model, k, n, 2)
               /\ stage_pipeline' = AfterLoadCalls(stage_pipeline, k, n, 3)
               /\ backend_loads' = CallsMade(LoadCalls(k), n)
               /\ admin_response' =
                    IF n = 3 THEN AdminOk(LoadEndpoint(k), LoadedMessage(k))
                             ELSE AdminError(LoadEndpoint(k))
    /\ UNCHANGED <<LOAD_BOTH_MODELS, phase, process_vars, startup_log, pp_vars, eng_vars, api_vars, tts_vars>>

\* POST /unload-stage1, /unload-stage2 (lines 313-330) calling
\* unload_stage1_model, unload_stage2_model (lines 220-255)
unload_stage(k) ==
    /\ phase = "serving"
    /\ EventLoopFree
    /\ IF stage_pipeline[k] = Unloaded
       THEN UNCHANGED model_vars
       ELSE /\ stage_model' = [stage_model EXCEPT ![k] = Unloaded]
            /\ stage_tokenizer' = [stage_tokenizer EXCEPT ![k] = Unloaded]
            /\ stage_pipeline' = [stage_pipeline EXCEPT ![k] = Unloaded]
    /\ admin_response' = AdminOk(UnloadEndpoint(k), UnloadedMessage(k))
    /\ UNCHANGED <<LOAD_BOTH_MODELS, phase, process_vars, startup_log,
                   backend_loads, pp_vars, eng_vars, api_vars, tts_vars>>

\* health reporting a stage loaded as soon as its tokenizer is
stage_loaded_Tokenizer(k) == stage_tokenizer[k] # Unloaded

\* lines 284-285: stageK_loaded = stageK_pipeline is not None
stage_loaded(k) == stage_pipeline[k] # Unloaded

\* GET /health, lines 280-290
health_check ==
    /\ phase = "serving"
    /\ EventLoopFree
    /\ admin_response' =
          [endpoint |-> "/health", status_code |-> 200, status |-> "healthy",
           stage1_loaded |-> stage_loaded(1), stage2_loaded |-> stage_loaded(2)]
    /\ UNCHANGED <<LOAD_BOTH_MODELS, phase, model_vars, process_vars, startup_log,
                   backend_loads, pp_vars, eng_vars, api_vars, tts_vars>>

(***************************************************************************)
(* text-processing/main.py: process_text                                   *)
(*                                                                         *)
(* The handler is a coroutine without an await: once started it runs to    *)
(* its end on the event loop, and no other handler runs in between.  pc is *)
(* its position: "idle" (not running), "stage1", "gen1" (inside the        *)
(* stage-1 pipeline call), "stage2", "gen2", "respond".                    *)
(***************************************************************************)
\* the texts of ProcessRequest.text (min_length=1)
Requests ==
    [text : {Chars("ab"), Chars("f ")}, skip_stage1 : BOOLEAN, skip_stage2 : BOOLEAN]

PcStage(k) == IF k = 1 THEN "stage1" ELSE "stage2"
PcGen(k) == IF k = 1 THEN "gen1" ELSE "gen2"
PcAfter(k) == IF k = 1 THEN "stage2" ELSE "respond"

\* request.skip_stage1, request.skip_stage2
Skip(k) == IF k = 1 THEN request.skip_stage1 ELSE request.skip_stage2

\* an exception that also holds the output of the completed stage
HTTPException_WithPartial(status_code, detail) ==
    [kind |-> "HTTPException", status_code |-> status_code, detail |-> detail,
     stage1_output |-> stage1_output]

\* raise HTTPException(status_code=..., detail=...)
HTTPException(status_code, detail) ==
    [kind |-> "HTTPException", status_code |-> status_code, detail |-> detail]

\* the check of a stage with the wrong handle
StageReady_Model(k) == stage_model[k] # Unloaded

\* lines 354 and 399: stageK_pipeline is not None
StageReady(k) == stage_pipeline[k] # Unloaded

\* the detail of the 503 of lines 355-364 and 400-409
NotReadyDetail(k) ==
    IF ~LOAD_BOTH_MODELS
    THEN (IF k = 1 THEN "Stage 1 model not loaded. Call /load-stage1 first."
                   ELSE "Stage 2 model not loaded. Call /load-stage2 first.")
    ELSE (IF k = 1 THEN "Stage 1 model failed to load on startup"
                   ELSE "Stage 2 model failed to load on startup")

\* stage 2 given the request text instead of stage 1's output
StageInput_RequestText(k) == request.text

\* the text in the user message of stage k's prompt: request.text at
\* line 371, stage1_output at line 416
StageInput(k) == IF k = 1 THEN request.text ELSE stage1_output

\* a skipped stage recording nothing
SkippedOutput_None(k) == None

\* lines 395 and 440: the output of a skipped stage
SkippedOutput(k) == StageInput(k)

\* stageK_output = value, the other local unchanged
SetStageOutput(k, value) ==
    IF k = 1 THEN stage1_output' = value /\ UNCHANGED stage2_output
             ELSE stage2_output' = value /\ UNCHANGED stage1_output

\* the exception noted while the handler goes on with the second stage
Fail_KeepGoing(exc) ==
    /\ response' = exc
    /\ pc' = "stage2"

\* the handler ends by raising exc: the caller receives it
Fail(exc) ==
    /\ response' = exc
    /\ pc' = "idle"

\* POST /process accepted: lines 341-349
ProcessBegin(req) ==
    /\ phase = "serving"
    /\ EventLoopFree
    /\ request' = req
    /\ stage1_output' = None
    /\ stage2_output' = None
    /\ generations' = <<>>
    /\ response' = NoResponse
    /\ pc' = "stage1"
    /\ UNCHANGED <<LOAD_BOTH_MODELS, phase, model_vars, admin_vars, pp_vars, eng_vars, api_vars, tts_vars>>

\* lines 353-387 and 398-432, up to the call of the stage's pipeline, and
\* the else branches of lines 393-395 and 438-440
StageEnter(k) ==
    /\ pc = PcStage(k)
    /\ IF ~Skip(k)
       THEN IF ~StageReady(k)
            THEN /\ Fail(HTTPException(503, NotReadyDetail(k)))
                 /\ UNCHANGED <<stage1_output, stage2_output, generations>>
            ELSE IF stage_tokenizer[k] = Unloaded
            THEN \* None.apply_chat_template: AttributeError, caught at line 465
                 /\ Fail(HTTPException(500, "Text processing failed: AttributeError"))
                 /\ UNCHANGED <<stage1_output, stage2_output, generations>>
            ELSE /\ generations' = Append(generations, [stage |-> k, text |-> StageInput(k)])
                 /\ pc' = PcGen(k)
                 /\ UNCHANGED <<stage1_output, stage2_output, response>>
       ELSE /\ SetStageOutput(k, SkippedOutput(k))
            /\ pc' = PcAfter(k)
            /\ UNCHANGED <<generations, response>>
    /\ UNCHANGED <<LOAD_BOTH_MODELS, phase, model_vars, request, admin_vars, pp_vars, eng_vars, api_vars, tts_vars>>

\* lines 465-470: an exception of the pipeline call becomes a 500
OnGenerationError(k) ==
    /\ Fail(HTTPException(500, "Text processing failed: generation error"))
    /\ UNCHANGED <<stage1_output, stage2_output>>

\* the pipeline call of lines 380 and 425 ends: it raises, or it returns
\* and lines 389/434 keep generated_text.strip()
StageGenerated(k) ==
    /\ pc = PcGen(k)
    /\ \/ OnGenerationError(k)
       \/ \E raw \in {<<>>, Chars(" "), Chars("cd"), Chars(" e\n")} :
            /\ SetStageOutput(k, Strip(raw))
            /\ pc' = PcAfter(k)
            /\ UNCHANGED response
    /\ UNCHANGED <<LOAD_BOTH_MODELS, phase, model_vars, request, generations,
                   admin_vars, pp_vars, eng_vars, api_vars, tts_vars>>

\* line 443: final_output = stage2_output if stage2_output else stage1_output
\* (None and the empty text count as false)
FinalOutput(s1, s2) == IF s2 # None /\ s2 # <<>> THEN s2 ELSE s1

\* lines 453-454: stageK_output if not request.skip_stageK else None
ReportedOutput(skipped, output) == IF ~skipped THEN output ELSE None

\* lines 451-461 (the times are left out)
ProcessResponse(s1, s2, final_output) ==
    [kind |-> "ProcessResponse",
     success |-> TRUE,
     stage1_output |-> s1,
     stage2_output |-> s2,
     final_output |-> final_output,
     original_length |-> Len(request.text),
     final_length |-> Len(final_output)]

\* lines 442-461
Respond ==
    /\ pc = "respond"
    /\ response' = ProcessResponse(ReportedOutput(request.skip_stage1, stage1_output),
                                   ReportedOutput(request.skip_stage2, stage2_output),
                                   FinalOutput(stage1_output, stage2_output))
    /\ pc' = "idle"
    /\ UNCHANGED <<LOAD_BOTH_MODELS, phase, model_vars, request, stage1_output,
                   stage2_output, generations, admin_vars, pp_vars, eng_vars, api_vars, tts_vars>>

Init ==
    /\ LOAD_BOTH_MODELS \in BOOLEAN
    /\ ServiceInit
    /\ PreprocessorIdle
    /\ EngineInit
    /\ ApiInit
    /\ TtsServiceInit

Next ==
    \/ lifespan
    \/ \E k \in Stages : load_stage(k)
    \/ \E k \in Stages : unload_stage(k)
    \/ health_check
    \/ \E req \in Requests : ProcessBegin(req)
    \/ \E k \in Stages : StageEnter(k)
    \/ \E k \in Stages : StageGenerated(k)
    \/ Respond

Spec == Init /\ [][Next]_vars

(***************************************************************************)
(* Claims about process_text                                               *)
(***************************************************************************)
\* the stage has been passed by the request at hand, or by the last one
Passed(k) ==
    IF k = 1 THEN stage1_output # None ELSE stage2_output # None
\* the pipeline of stage k was called for the request
Generated(k) == \E i \in 1..Len(generations) : generations[i].stage = k
\* the request has been answered and no other has begun
Answered == pc = "idle" /\ response # NoResponse

\* C5 as stated: for a request that skips stage K, what process_text records
\* as stage K's output is the text stage K received (the request text for
\* stage 1, stage 1's output for stage 2), and stage K's generation is never
\* invoked.
C5_SkippedOutputIsInput ==
    response.kind = "ProcessResponse" =>
        /\ request.skip_stage1 =>
              response.stage1_output = request.text /\ ~Generated(1)
        /\ request.skip_stage2 =>
              response.stage2_output = stage1_output /\ ~Generated(2)

\* C5 as amended: for a request that skips stage K, the text process_text
\* carries forward as stage K's output is the text stage K received, stage
\* K's generation is never invoked, and the response reports no output
\* (None) for stage K.
C5_SkipPassThrough ==
    /\ request.skip_stage1 =>
          /\ ~Generated(1)
          /\ pc \in {"stage2", "gen2", "respond"} => stage1_output = request.text
          /\ Passed(1) => stage1_output = request.text
          /\ Generated(2) => generations[Len(generations)].text = request.text
    /\ request.skip_stage2 =>
          /\ ~Generated(2)
          /\ pc = "respond" => stage2_output = stage1_output
          /\ Passed(2) => stage2_output = stage1_output
    /\ response.kind = "ProcessResponse" =>
          /\ request.skip_stage1 =>
                response.stage1_output = None /\ stage1_output = request.text
          /\ request.skip_stage2 =>
                /\ response.stage2_output = None
                /\ stage2_output = stage1_output
                /\ response.final_output = stage1_output

\* a request that skipped both stages has been answered
C5_Witness ==
    /\ Answered
    /\ response.kind = "ProcessResponse"
    /\ request.skip_stage1
    /\ request.skip_stage2
    /\ response.final_output = request.text

\* C6: whenever process_text succeeds, final_output is the output of the
\* final stage: what stage 2 generated when stage 2 is not skipped, the text
\* passed through it otherwise, also when that text is empty.
C6_FinalIsLastStage ==
    response.kind = "ProcessResponse" => response.final_output = stage2_output

\* C7: the stages run in order without overlap: stage 2's generation starts
\* only after stage 1 has finished or was skipped, and the text given to it
\* is stage 1's output (the request text when stage 1 was skipped).
C7_StagesInOrder ==
    /\ Len(generations) <= 2
    /\ \A i, j \in 1..Len(generations) :
          i < j => generations[i].stage < generations[j].stage
    /\ \A i \in 1..Len(generations) :
          /\ generations[i].stage = 1 => generations[i].text = request.text
          /\ generations[i].stage = 2 =>
                /\ Passed(1)
                /\ generations[i].text = stage1_output
                /\ request.skip_stage1 => generations[i].text = request.text
                /\ ~request.skip_stage1 => i = 2
    /\ pc \in {"stage1", "gen1"} => ~Passed(1) /\ ~Generated(2)
    /\ pc = "gen1" => Generated(1)
    /\ pc = "gen2" => Passed(1) /\ Generated(2) /\ ~Passed(2)

\* stage 2 is generating from what stage 1 generated
C7_Witness ==
    /\ pc = "gen2"
    /\ ~request.skip_stage1
    /\ Len(generations) = 2
    /\ stage1_output # request.text
    /\ generations[2].text = stage1_output

\* the 503 that names stage k and says whether it can be loaded on demand
C8_StageNotReady(k) ==
    [kind |-> "HTTPException",
     status_code |-> 503,
     detail |->
        IF k = 1
        THEN (IF LOAD_BOTH_MODELS THEN "Stage 1 model failed to load on startup"
              ELSE "Stage 1 model not loaded. Call /load-stage1 first.")
        ELSE (IF LOAD_BOTH_MODELS THEN "Stage 2 model failed to load on startup"
              ELSE "Stage 2 model not loaded. Call /load-stage2 first.")]

\* C8: process_text fails with the stage-not-ready error if and only if a
\* stage that is not skipped has no pipeline loaded when it is reached; the
\* error names the stage and gives the load-endpoint hint when
\* LOAD_BOTH_MODELS is false and the startup failure otherwise.  A skipped
\* stage need not be loaded.
C8_NotReadyIff ==
    [][/\ \A k \in Stages :
            (pc = PcStage(k) /\ pc' # pc) =>
                IF ~Skip(k) /\ stage_pipeline[k] = Unloaded
                THEN pc' = "idle" /\ response' = C8_StageNotReady(k)
                ELSE response' = response /\ pc' # "idle"
       /\ (response' # response /\ response'.kind = "HTTPException"
              /\ response'.status_code = 503) =>
            \E k \in Stages :
                /\ pc = PcStage(k)
                /\ ~Skip(k)
                /\ stage_pipeline[k] = Unloaded
                /\ response' = C8_StageNotReady(k)]_vars

\* stage 1 was skipped while not loaded and stage 2, not loaded, was refused
C8_Witness ==
    /\ Answered
    /\ response = C8_StageNotReady(2)
    /\ request.skip_stage1
    /\ stage_pipeline[1] = Unloaded
    /\ stage_pipeline[2] = Unloaded

\* C9: when stage 1 fails (it is not ready, or its generation raises),
\* stage 2's generation is not invoked for the request and the request is
\* answered with that error; a failure is never answered as a success.
C9_Stage1FailureAborts ==
    /\ [](/\ (Answered /\ response.kind = "HTTPException" /\ ~Passed(1)) =>
                /\ ~Generated(2)
                /\ ~Passed(2)
                /\ IF Generated(1)
                   THEN response.status_code = 500
                   ELSE response = C8_StageNotReady(1)
          /\ response.kind = "ProcessResponse" =>
                /\ Passed(1) /\ Passed(2)
                /\ \A k \in Stages : Generated(k) <=> ~Skip(k))
    /\ [][/\ (pc = "stage1" /\ ~request.skip_stage1 /\ stage_pipeline[1] = Unloaded
                 /\ pc' # pc) =>
                (pc' = "idle" /\ response'.kind = "HTTPException")
          /\ (pc = "gen1" /\ pc' # pc) =>
                \/ pc' = "stage2" /\ Passed(1)' /\ response' = response
                \/ pc' = "idle" /\ response'.kind = "HTTPException" /\ ~Passed(1)'
          /\ (pc = "gen2" /\ pc' # pc) =>
                \/ pc' = "respond" /\ Passed(2)' /\ response' = response
                \/ pc' = "idle" /\ response'.kind = "HTTPException" /\ ~Passed(2)']_vars

\* stage 1's generation raised and the request was answered with the error
C9_Witness ==
    /\ Answered
    /\ response.kind = "HTTPException"
    /\ response.status_code = 500
    /\ Generated(1)
    /\ ~Passed(1)
    /\ ~request.skip_stage2
    /\ stage_pipeline[2] # Unloaded

\* C10 as stated: when stage 2 fails after stage 1 has produced its output,
\* the failure the caller receives includes that output.
C10_FailureIncludesPartial ==
    (Answered /\ response.kind = "HTTPException" /\ Generated(1) /\ Passed(1)) =>
        /\ "stage1_output" \in DOMAIN response
        /\ response.stage1_output = stage1_output

\* C10 as amended: when stage 2 fails after stage 1 has produced its
\* output, the call is answered as failed with an HTTPException that holds
\* a status code and a detail message only (503 naming stage 2 when it is
\* not loaded, 500 when its generation raised); stage 1's output is not in
\* it.
C10_FailureHoldsDetailOnly ==
    (Answered /\ Passed(1) /\ ~Passed(2)) =>
        /\ response.kind = "HTTPException"
        /\ DOMAIN response = {"kind", "status_code", "detail"}
        /\ IF Generated(2)
           THEN response.status_code = 500
           ELSE response = C8_StageNotReady(2)

\* stage 1 generated its output and stage 2's generation raised
C10_Witness ==
    /\ Answered
    /\ response.kind = "HTTPException"
    /\ Generated(1)
    /\ Generated(2)
    /\ Passed(1)
    /\ ~Passed(2)

(***************************************************************************)
(* tts_engine.py: TTSEngine                                                *)
(*                                                                         *)
(* kokoro_onnx.Kokoro is a library outside the repository: its             *)
(* constructor, get_voices and create either raise or return, and what     *)
(* they return is chosen among a few values.                               *)
(***************************************************************************)
\* an optional argument: absent (Python's None) or given
NoArg == <<>>
Some(x) == <<x>>

\* what Kokoro.get_voices() may return
VoiceLists ==
    {<<>>, <<"bf_emma">>, <<"af_sarah", "bf_emma">>,
     <<"af_sarah", "af_nicole", "af_bella", "af_jessica", "am_adam", "am_michael",
       "bf_emma", "bf_isabella", "bm_george", "bm_lewis", "af_sky">>}
\* what Kokoro.create() may do: raise, or return a number of samples and
\* their rate (a rate of 0 is a malformed output)
BackendAudio == {[raises |-> TRUE, samples |-> 0, sample_rate |-> 0],
                 [raises |-> FALSE, samples |-> 0, sample_rate |-> 0],
                 [raises |-> FALSE, samples |-> 0, sample_rate |-> 24000],
                 [raises |-> FALSE, samples |-> 36000, sample_rate |-> 24000]}

InList(x, list) == \E i \in 1..Len(list) : list[i] = x

\* how a call of a TTSEngine method ended: its arguments, the exception class it raised
\* ("none" when it returned), the backend calls it made, in order, and the
\* steps of the method it went through
EngineCall(op, args, raised, backend, steps, result) ==
    [op |-> op, args |-> args, raised |-> raised, backend |-> backend,
     steps |-> steps, result |-> result]
NoResult == [kind |-> "none"]

\* is_loaded, lines 267-270: self._model is not None
is_loaded == engine_model # Unloaded

\* load_model, lines 230-265
load_model_call ==
    /\ IF engine_model # Unloaded
       THEN \* line 237-239: already loaded
            /\ engine_call' = EngineCall("load_model", NoArg, "none", <<>>, <<"already loaded">>, NoResult)
            /\ UNCHANGED <<engine_model, available_voices, default_voice>>
       ELSE \/ \* Kokoro(...) raises at line 245
               /\ engine_call' = EngineCall("load_model", NoArg, "TTSError", <<"Kokoro">>,
                                            <<"Kokoro">>, NoResult)
               /\ UNCHANGED <<engine_model, available_voices, default_voice>>
            \/ \* get_voices() raises at line 248
               /\ engine_model' = "Kokoro"
               /\ engine_call' = EngineCall("load_model", NoArg, "TTSError",
                                            <<"Kokoro", "get_voices">>,
                                            <<"Kokoro", "get_voices">>, NoResult)
               /\ UNCHANGED <<available_voices, default_voice>>
            \/ \E voices \in VoiceLists :
               /\ engine_model' = "Kokoro"
               /\ available_voices' = voices
               /\ IF InList(default_voice, voices)
                  THEN /\ UNCHANGED default_voice
                       /\ engine_call' = EngineCall("load_model", NoArg, "none",
                                            <<"Kokoro", "get_voices">>,
                                            <<"Kokoro", "get_voices", "default voice">>,
                                            NoResult)
                  ELSE IF voices = <<>>
                  THEN \* self._available_voices[0] at line 260: IndexError
                       /\ UNCHANGED default_voice
                       /\ engine_call' = EngineCall("load_model", NoArg, "TTSError",
                                            <<"Kokoro", "get_voices">>,
                                            <<"Kokoro", "get_voices", "default voice">>,
                                            NoResult)
                  ELSE /\ default_voice' = voices[1]
                       /\ engine_call' = EngineCall("load_model", NoArg, "none",
                                            <<"Kokoro", "get_voices">>,
                                            <<"Kokoro", "get_voices", "default voice">>,
                                            NoResult)
    /\ UNCHANGED default_speed

\* load_model called on the engine directly
load_model == load_model_call /\ UNCHANGED <<pp_vars, svc_vars, api_vars, tts_vars>>

\* preprocess_text, lines 299-313
preprocess_text(t, rc) == clean_text(t, rc)

\* validate_voice, lines 279-297: the exception it raises, "none" when it
\* returns
validate_voice(voice) ==
    IF ~is_loaded THEN "ModelNotLoadedError"
    ELSE IF available_voices = None THEN "TypeError"     \* voice not in None
    ELSE IF ~InList(voice, available_voices) THEN "VoiceNotFoundError"
    ELSE "none"

\* synthesize cleaning the text before it looks at the model
SynthesizeSteps_PreprocessFirst(preprocess) ==
    (IF preprocess THEN <<"preprocess_text">> ELSE <<>>)
    \o <<"is_loaded", "validate_voice", "create">>

\* the steps of synthesize that can raise, in the order of lines 344-374
SynthesizeSteps(preprocess) ==
    <<"is_loaded", "validate_voice">>
    \o (IF preprocess THEN <<"preprocess_text">> ELSE <<>>)
    \o <<"create">>

\* the handler letting every exception through as it is
Wrapped_Leak(e) == e

\* lines 399-402: what leaves the try block of synthesize when e is raised
\* inside it
Wrapped(e) ==
    IF e \in {"ModelNotLoadedError", "VoiceNotFoundError", "TextPreprocessingError"}
    THEN e ELSE "TTSError"

\* the first voices of the message of VoiceNotFoundError, line 296
Listed(voices) == SubSeq(voices, 1, IF Len(voices) < 10 THEN Len(voices) ELSE 10)

\* the exception a step of synthesize raises, "none" when it passes:
\* lines 344-345, 352, 359-360, and 369-374 with 399-402
StepRaises(step, voice, cleaned, created) ==
    CASE step = "is_loaded"       -> IF is_loaded THEN "none" ELSE "ModelNotLoadedError"
      [] step = "validate_voice"  -> validate_voice(voice)
      [] step = "preprocess_text" -> IF cleaned.raised THEN "TextPreprocessingError"
                                     ELSE "none"
      [] step = "create"          -> IF ~is_loaded THEN Wrapped("AttributeError")
                                     ELSE IF created.raises THEN Wrapped("RuntimeError")
                                     ELSE IF created.sample_rate = 0
                                     THEN \* line 377
                                          Wrapped("ZeroDivisionError")
                                     ELSE "none"

\* synthesize, lines 315-402: created is what self._model.create does when
\* it is called, cleaned what preprocess_text does (the text as it is when
\* preprocess is false)
synthesize_call(txt, voice, speed, preprocess, rc, created, cleaned) ==
    \E \* lines 348-349
       v \in {IF voice = NoArg \/ voice = Some("") THEN default_voice ELSE voice[1]},
       sp \in {IF speed = NoArg THEN default_speed ELSE speed[1]},
       steps \in {SynthesizeSteps(preprocess)} :
    \E raising \in {{i \in 1..Len(steps) :
                        StepRaises(steps[i], v, cleaned, created) # "none"}} :
    \E first \in {IF raising = {} THEN Len(steps)
                  ELSE CHOOSE i \in raising : \A j \in raising : i <= j} :
    \E raised \in {IF raising = {} THEN "none"
                   ELSE StepRaises(steps[first], v, cleaned, created)} :
        /\ engine_call' =
              [created |-> IF steps[first] = "create" THEN created ELSE NotCalled] @@
              EngineCall("synthesize",
                         [text |-> txt, voice |-> voice, speed |-> speed,
                          preprocess |-> preprocess, remove_citations |-> rc],
                         raised,
                         IF steps[first] = "create" THEN <<"create">> ELSE <<>>,
                         SubSeq(steps, 1, first),
                         IF raised = "VoiceNotFoundError"
                         THEN [kind |-> "message", listed |-> Listed(available_voices)]
                         ELSE IF raised # "none" THEN NoResult
                         ELSE [kind |-> "audio",
                               samples |-> created.samples,
                               sample_rate |-> created.sample_rate,
                               voice |-> v,
                               speed |-> sp,
                               text |-> cleaned.value,
                               original_text_length |-> Len(txt),
                               processed_text_length |-> Len(cleaned.value)])
        /\ UNCHANGED <<engine_model, available_voices, default_voice, default_speed>>

\* synthesize called on the engine directly
synthesize(txt, voice, speed, preprocess, rc, created) ==
    \E cleaned \in {IF preprocess THEN preprocess_text(txt, rc) ELSE Returned(<<>>, txt)} :
        /\ synthesize_call(txt, voice, speed, preprocess, rc, created, cleaned)
        /\ UNCHANGED <<pp_vars, svc_vars, api_vars, tts_vars>>

\* TTSEngine(model_path, voices_path, auto_load=False, default_voice=...)
EngineConstructed ==
    /\ engine_model = Unloaded
    /\ available_voices = None
    /\ default_voice \in {"af_sarah", "bf_emma"}
    /\ default_speed = DefaultSpeed
    /\ engine_call = NoEngineCall

InitEngine ==
    /\ EngineConstructed
    /\ PreprocessorIdle
    /\ LOAD_BOTH_MODELS = TRUE
    /\ ServiceInit
    /\ ApiInit
    /\ TtsServiceInit

NextEngine ==
    \/ load_model
    \/ \E txt \in {Chars("  "), Chars("Hi there."), Chars("See [1] , ok.")},
          voice \in {NoArg, Some(""), Some("bf_emma"), Some("zz_none")},
          speed \in {NoArg, Some(50), Some(150)},
          preprocess \in BOOLEAN, rc \in BOOLEAN,
          created \in BackendAudio :
            synthesize(txt, voice, speed, preprocess, rc, created)

SpecEngine == InitEngine /\ [][NextEngine]_vars

(***************************************************************************)
(* tts-service-v2/main.py: the API in front of the engine                  *)
(*                                                                         *)
(* Its handlers are coroutines without an await: each runs to its end      *)
(* before another starts.  Speeds are hundredths, durations milliseconds.  *)
(***************************************************************************)
\* MAX_TEXT_LENGTH, line 34
MAX_TEXT_LENGTH == 5000
\* the range of the speed without its upper bound
SpeedInRange_NoUpperBound(speed) == speed = NoArg \/ speed[1] >= 50

\* SynthesizeRequest.speed, lines 99-105: absent, or between 0.5 (ge, line
\* 101) and 2.0 (le, line 102)
SpeedInRange(speed) == speed = NoArg \/ (speed[1] >= 50 /\ speed[1] <= 200)

\* the validation of SynthesizeRequest, lines 85-121
ValidRequest(req) ==
    /\ Len(req.text) >= 1
    /\ Len(req.text) <= MAX_TEXT_LENGTH
    /\ Strip(req.text) # <<>>
    /\ SpeedInRange(req.speed)

\* the requests of POST /synthesize
ApiRequests ==
    [text : {Chars("  "), Chars("Hi there.")}, voice : {NoArg},
     speed : {NoArg, Some(30), Some(50), Some(200), Some(300)},
     preprocess : {TRUE}, remove_citations : {TRUE}]
    \cup [text : {Chars("Hi there.")}, voice : {Some("zz_none")}, speed : {NoArg},
          preprocess : BOOLEAN, remove_citations : {TRUE}]

\* lifespan, lines 40-68: TTSEngine(..., auto_load=True); a constructor that
\* raises leaves the global tts_engine None
api_lifespan ==
    /\ api_phase = "boot"
    /\ \/ \* FileNotFoundError, tts_engine.py lines 222-225
          /\ tts_engine' = Unloaded
          /\ UNCHANGED eng_vars
       \/ /\ load_model_call
          /\ tts_engine' = IF engine_call'.raised = "none" THEN "TTSEngine" ELSE Unloaded
    /\ api_phase' = "serving"
    /\ UNCHANGED <<api_request, api_response, pp_vars, svc_vars, tts_vars>>

\* lines 227, 248 and 293: tts_engine is None or not tts_engine.is_loaded
NotReady == tts_engine = Unloaded \/ ~is_loaded

ApiError(endpoint, code, error) ==
    [endpoint |-> endpoint, status_code |-> code, error |-> error]

\* GET /health, lines 221-240
api_health_check ==
    /\ api_phase = "serving"
    /\ api_response' =
          IF NotReady THEN ApiError("/health", 503, "Model not loaded")
          ELSE [endpoint |-> "/health", status_code |-> 200, status |-> "healthy",
                model_loaded |-> TRUE, voices_count |-> Len(available_voices)]
    /\ UNCHANGED <<tts_engine, api_phase, api_request, eng_vars, pp_vars, svc_vars,
                   tts_vars>>

\* what POST /synthesize answers after tts_engine.synthesize has ended as
\* call: lines 316-357 and the exception handlers of lines 165-200.
\* written is whether sf.write returns
SynthesizeAnswer(call, written) ==
    IF call.raised \in {"VoiceNotFoundError", "TextPreprocessingError"}
    THEN ApiError("/synthesize", 400, call.raised)
    ELSE IF call.raised \in {"TTSError", "ModelNotLoadedError"}
    THEN ApiError("/synthesize", 500, "TTSError")
    ELSE IF call.raised # "none" \/ ~written
    THEN ApiError("/synthesize", 500, "Synthesis failed")
    ELSE [endpoint |-> "/synthesize", status_code |-> 200, success |-> TRUE,
          sample_rate |-> call.result.sample_rate,
          duration |-> (call.result.samples * 1000) \div call.result.sample_rate,
          voice |-> call.result.voice,
          text_length |-> call.result.processed_text_length,
          original_text_length |-> call.result.original_text_length,
          audio_samples |-> call.result.samples]

\* POST /synthesize, lines 273-357, after the validation of the request
api_synthesize(req, created, written) ==
    \E cleaned \in {IF req.preprocess
                     THEN preprocess_text(req.text, req.remove_citations)
                     ELSE Returned(<<>>, req.text)} :
        /\ api_phase = "serving"
        /\ api_request' = req
        /\ IF ~ValidRequest(req)
           THEN /\ api_response' = ApiError("/synthesize", 422, "validation")
                /\ UNCHANGED eng_vars
           ELSE IF NotReady
           THEN /\ api_response' = ApiError("/synthesize", 503, "Model not loaded")
                /\ UNCHANGED eng_vars
           ELSE /\ synthesize_call(req.text, req.voice, req.speed, req.preprocess,
                                   req.remove_citations, created, cleaned)
                /\ api_response' = SynthesizeAnswer(engine_call', written)
        /\ UNCHANGED <<tts_engine, api_phase, pp_vars, svc_vars, tts_vars>>

\* the engine is used either directly, as its unit tests do (while the API
\* has not started), or by the API (when no direct call was made): a
\* behaviour follows the one that took the first step
NextApi ==
    \/ api_phase = "boot" /\ load_model
    \/ \E txt \in {Chars("Hi there.")}, voice \in {NoArg, Some("zz_none")},
          speed \in {NoArg, Some(30), Some(300)},
          preprocess \in BOOLEAN, created \in BackendAudio :
            api_phase = "boot" /\ synthesize(txt, voice, speed, preprocess, TRUE, created)
    \/ (api_phase = "serving" \/ engine_call = NoEngineCall) /\ api_lifespan
    \/ api_health_check
    \/ \E req \in ApiRequests, created \in BackendAudio, written \in BOOLEAN :
          api_synthesize(req, created, written)

SpecApi == InitEngine /\ [][NextApi]_vars

(***************************************************************************)
(* The loading and unloading operations of the text-processing service and *)
(* of the TTS engine, without the requests they serve                      *)
(***************************************************************************)
InitLifecycle ==
    /\ LOAD_BOTH_MODELS \in BOOLEAN
    /\ ServiceInit
    /\ PreprocessorIdle
    /\ EngineConstructed
    /\ ApiInit
    /\ TtsServiceInit

NextLifecycle ==
    \/ lifespan
    \/ \E k \in Stages : load_stage(k)
    \/ \E k \in Stages : unload_stage(k)
    \/ health_check
    \/ load_model

SpecLifecycle == InitLifecycle /\ [][NextLifecycle]_vars

(***************************************************************************)
(* tts-service/main.py: the first TTS service, with its lazily loaded      *)
(* global kokoro_model                                                     *)
(*                                                                         *)
(* Its handlers are coroutines without an await: each runs to its end      *)
(* before another starts.  Speeds are hundredths (100 is 1.0), durations   *)
(* are milliseconds.                                                       *)
(***************************************************************************)
\* the requests of POST /generate: TTSRequest, lines 78-82 (text has at
\* least one character, speed is between 0.5 and 2.0)
TtsRequests ==
    [text : {Chars("Hi"), Chars("Hi there.")}, voice : {"af_sarah", "zz_none"},
     speed : {50, 100, 150, 200}]

\* load_kokoro_model(), lines 99-132: what a call may leave in
\* kokoro_model, and how it ended: "already" (lines 103-104), "Kokoro"
\* (line 119), "FallbackTTS" (ImportError, lines 124-128), or "raise" (the
\* download or the construction failed, lines 130-132)
load_kokoro_model(model) ==
    IF model # Unloaded
    THEN {[model |-> model, outcome |-> "already"]}
    ELSE {[model |-> "Kokoro", outcome |-> "Kokoro"],
          [model |-> "FallbackTTS", outcome |-> "FallbackTTS"],
          [model |-> Unloaded, outcome |-> "raise"]}

\* FallbackTTS.create, lines 142-147: silence of 50 ms per character,
\* divided by the speed, at 22050 samples per second

\* line 145, with the division by the speed dropped
FallbackCreate_IgnoresSpeed(txt, speed) ==
    [raises |-> FALSE,
     samples |-> (22050 * Len(txt) * 5) \div 100,
     sample_rate |-> 22050]

FallbackCreate(txt, speed) ==
    [raises |-> FALSE,
     samples |-> (22050 * Len(txt) * 5) \div speed,
     sample_rate |-> 22050]

\* startup_event, lines 150-158: the failure of the load is logged and the
\* service starts without a model
startup_event ==
    /\ tts_phase = "boot"
    /\ \E r \in load_kokoro_model(kokoro_model) :
          /\ kokoro_model' = r.model
          /\ tts_load_calls' = <<r.outcome>>
    /\ tts_phase' = "serving"
    /\ UNCHANGED <<tts_response, tts_call, pp_vars, svc_vars, eng_vars, api_vars>>

\* GET /health of the first TTS service, lines 161-168
tts_health_check ==
    /\ tts_phase = "serving"
    /\ tts_load_calls' = <<>>
    /\ tts_response' =
          [endpoint |-> "/health", status_code |-> 200,
           status |-> IF kokoro_model # Unloaded THEN "healthy" ELSE "initializing",
           model_loaded |-> kokoro_model # Unloaded]
    /\ UNCHANGED <<kokoro_model, tts_phase, tts_call, pp_vars, svc_vars, eng_vars,
                   api_vars>>

\* line 183, with the test dropped
NeedsLoad_Always(model) == TRUE

\* line 183: if kokoro_model is None
NeedsLoad(model) == model = Unloaded

\* the answers of POST /generate: TTSResponse (lines 209-215) and the
\* HTTPException of lines 217-219, with the step that raised
TtsOk(audio, txt) ==
    [endpoint |-> "/generate", status_code |-> 200,
     duration |-> (audio.samples * 1000) \div audio.sample_rate,
     sample_rate |-> audio.sample_rate, text_length |-> Len(txt)]
TtsFailed(step) ==
    [endpoint |-> "/generate", status_code |-> 500,
     detail |-> "TTS generation failed: ", raised_by |-> step]

\* POST /generate, lines 171-219.  created is what Kokoro.create does,
\* written whether sf.write returns
generate_tts(req, created, written) ==
    /\ tts_phase = "serving"
    /\ \E calls \in (IF NeedsLoad(kokoro_model)
                      THEN {<<r>> : r \in load_kokoro_model(kokoro_model)}
                      ELSE {<<>>}) :
        \E model \in {IF calls = <<>> THEN kokoro_model ELSE calls[1].model} :
        \E audio \in {IF model = "FallbackTTS"
                       THEN FallbackCreate(req.text, req.speed)
                       ELSE created} :
          /\ kokoro_model' = model
          /\ tts_load_calls' = [i \in 1..Len(calls) |-> calls[i].outcome]
          /\ tts_call' =
                [request |-> req,
                 audio |-> IF model = Unloaded
                              \/ (calls # <<>> /\ calls[1].outcome = "raise")
                           THEN NotCalled ELSE audio]
          /\ tts_response' =
                IF calls # <<>> /\ calls[1].outcome = "raise"
                THEN TtsFailed("load_kokoro_model")
                ELSE IF model = Unloaded \/ audio.raises
                THEN \* None has no create; or create raised
                     TtsFailed("create")
                ELSE IF audio.sample_rate = 0
                THEN \* line 197: division by zero
                     TtsFailed("duration")
                ELSE IF ~written
                THEN TtsFailed("sf.write")
                ELSE TtsOk(audio, req.text)
    /\ UNCHANGED <<tts_phase, pp_vars, svc_vars, eng_vars, api_vars>>

NextLegacy ==
    \/ startup_event
    \/ tts_health_check
    \/ \E req \in TtsRequests, created \in BackendAudio, written \in BOOLEAN :
          generate_tts(req, created, written)

(***************************************************************************)
(* The three services together.  They are separate processes that share    *)
(* no state, so a behaviour follows one of them: the one that took the     *)
(* first step.                                                             *)
(***************************************************************************)
InitServices ==
    /\ LOAD_BOTH_MODELS \in BOOLEAN
    /\ ServiceInit
    /\ PreprocessorIdle
    /\ EngineInit
    /\ ApiInit
    /\ TtsServiceInit

\* the first TTS service alone
SpecLegacy == InitServices /\ [][NextLegacy]_vars

\* a service steps when no step of the other two has been taken
NextServices ==
    \/ (tts_phase = "boot" /\ engine_call = NoEngineCall) /\ Next
    \/ (phase = "boot" /\ tts_phase = "boot") /\ load_model
    \/ \E txt \in {Chars("Hi there.")}, voice \in {NoArg, Some("zz_none")},
          preprocess \in BOOLEAN, created \in BackendAudio :
            /\ phase = "boot" /\ tts_phase = "boot"
            /\ synthesize(txt, voice, NoArg, preprocess, TRUE, created)
    \/ (phase = "boot" /\ engine_call = NoEngineCall) /\ NextLegacy

SpecServices == InitServices /\ [][NextServices]_vars

(***************************************************************************)
(* Claims about the loading and unloading of the stages                    *)
(***************************************************************************)
\* C11: after any sequence of startup loading, load-stage and unload-stage
\* operations the footprints of the loaded stages sum to no more than the
\* budget: with stage 1 taking 10 GB, stage 2 taking 30 GB and a budget of
\* 35 GB, the two stages are never loaded together.
C11_WithinBudget ==
    (IF stage_pipeline[1] # Unloaded THEN 10 ELSE 0)
        + (IF stage_pipeline[2] # Unloaded THEN 30 ELSE 0) <= 35

\* the startup log says that a load call failed
StartupFailureLogged == \E i \in 1..Len(startup_log) :
    startup_log[i] = "ERROR Failed to load models"
\* how often it says so
StartupFailureReports == Cardinality({i \in 1..Len(startup_log) :
    startup_log[i] = "ERROR Failed to load models"})
\* the startup log has the line that reports stage k loaded
StartupLoadedLogged(k) == \E i \in 1..Len(startup_log) :
    startup_log[i] = (IF k = 1 THEN "Stage 1 model loaded (~10GB RAM)"
                               ELSE "Stage 2 model loaded (~28GB RAM)")
\* eager mode, and the startup ended without stage k loaded
StartupFailed(k) ==
    LOAD_BOTH_MODELS /\ StartupFailureLogged /\ ~StartupLoadedLogged(k)

\* C12 as stated: in eager mode a stage that could not be loaded at startup
\* remains unloaded, and every later process request that does not skip it
\* fails with the not-loaded error and never generates with that stage.
C12_StartupFailureIsFinal ==
    \A k \in Stages :
        StartupFailed(k) =>
            /\ stage_pipeline[k] = Unloaded
            /\ ~Generated(k)
            /\ (Answered /\ ~Skip(k) /\ (k = 2 => Passed(1))) =>
                    response = C8_StageNotReady(k)

\* C12 as amended: in eager mode a failed startup load is logged once and
\* leaves the stage unloaded; the stage becomes loaded only by a load call
\* for it that succeeds, and as long as it is unloaded every process request
\* that reaches it without skipping it fails with the not-loaded error
\* without generating.
C12_StartupFailureUntilLoad ==
    [][/\ (phase = "boot" /\ phase' = "serving" /\ LOAD_BOTH_MODELS) =>
            /\ \A k \in Stages : stage_pipeline'[k] = Unloaded <=> StartupFailed(k)'
            /\ StartupFailureReports' =
                  (IF \E k \in Stages : stage_pipeline'[k] = Unloaded THEN 1 ELSE 0)
       /\ phase = "serving" => startup_log' = startup_log
       /\ \A k \in Stages :
            /\ (StartupFailed(k) /\ stage_pipeline[k] = Unloaded
                    /\ stage_pipeline'[k] # Unloaded) =>
                  /\ pc = "idle" /\ pc' = "idle"
                  /\ admin_response' = AdminOk(LoadEndpoint(k), LoadedMessage(k))
                  /\ backend_loads' = LoadCalls(k)
            /\ (StartupFailed(k) /\ stage_pipeline[k] = Unloaded
                    /\ pc = PcStage(k) /\ ~Skip(k) /\ pc' # pc) =>
                  /\ pc' = "idle"
                  /\ response' = C8_StageNotReady(k)
                  /\ generations' = generations]_vars

\* stage 2 failed to load at startup and a request that needed it was refused
C12_Witness ==
    /\ StartupFailed(2)
    /\ ~StartupFailed(1)
    /\ Answered
    /\ Generated(1)
    /\ response = C8_StageNotReady(2)
    /\ response.detail = "Stage 2 model failed to load on startup"

\* C13: a loaded stage becomes unloaded only by an unload call for that
\* stage: the steps of a process request, health checks, and load or unload
\* calls for the other stage leave its tokenizer, model and pipeline as they
\* are.
C13_NoEviction ==
    [][\A k \in Stages :
        /\ (stage_pipeline[k] # Unloaded /\ stage_pipeline'[k] = Unloaded) =>
              /\ pc = "idle" /\ pc' = "idle"
              /\ admin_response' = AdminOk(UnloadEndpoint(k), UnloadedMessage(k))
        /\ (stage_pipeline[k] # Unloaded
                /\ \/ pc # "idle"
                   \/ pc' # "idle"
                   \/ admin_response'.endpoint = "/health"
                   \/ \E j \in Stages \ {k} :
                        admin_response'.endpoint \in {LoadEndpoint(j), UnloadEndpoint(j)}) =>
              /\ stage_pipeline'[k] = stage_pipeline[k]
              /\ stage_model'[k] = stage_model[k]
              /\ stage_tokenizer'[k] = stage_tokenizer[k]]_vars

\* stage 1 is still loaded after a request used it, stage 2 was loaded and
\* an unload call for stage 2 has unloaded it
C13_Witness ==
    /\ stage_pipeline[1] # Unloaded
    /\ stage_pipeline[2] = Unloaded
    /\ stage_model[2] = Unloaded
    /\ admin_response = AdminOk(UnloadEndpoint(2), UnloadedMessage(2))
    /\ Answered
    /\ Generated(1)
    /\ response = C8_StageNotReady(2)

\* the health field of stage k in a health response
HealthSays(resp, k) == IF k = 1 THEN resp.stage1_loaded ELSE resp.stage2_loaded

\* C14: when a backend load call raises during a load call for a stage, at
\* the tokenizer, the model or the pipeline step, the caller receives the
\* error and the stage is left unloaded: a health check reports it not
\* loaded and a process request that reaches it without skipping it fails
\* with stage-not-ready.
C14_LoadFailureLeavesUnloaded ==
    /\ [](\A k \in Stages :
            admin_response.endpoint = LoadEndpoint(k) =>
                /\ admin_response.success <=> stage_pipeline[k] # Unloaded
                /\ ~admin_response.success =>
                      /\ admin_response = AdminError(LoadEndpoint(k))
                      /\ admin_response.status_code = 500
                      /\ backend_loads \in {SubSeq(LoadCalls(k), 1, n) : n \in 1..3}
                      /\ Len(backend_loads) >= 2 => stage_tokenizer[k] # Unloaded
                      /\ Len(backend_loads) >= 3 => stage_model[k] # Unloaded)
    /\ [][\A k \in Stages :
            admin_response = AdminError(LoadEndpoint(k)) =>
                /\ (admin_response'.endpoint = "/health") =>
                        ~HealthSays(admin_response', k)
                /\ (pc = PcStage(k) /\ ~Skip(k) /\ pc' # pc) =>
                        /\ pc' = "idle"
                        /\ response' = C8_StageNotReady(k)
                        /\ generations' = generations]_vars

\* the load of stage 1 failed at its pipeline step, tokenizer and model in
\* place, and a request that needs stage 1 has come in
C14_Witness ==
    /\ admin_response = AdminError(LoadEndpoint(1))
    /\ backend_loads = LoadCalls(1)
    /\ stage_tokenizer[1] # Unloaded
    /\ stage_model[1] # Unloaded
    /\ pc = "stage1"
    /\ ~request.skip_stage1

\* C18: unloading is idempotent: after an unload call for a stage has
\* returned, the stage is unloaded with its model, its tokenizer and its
\* pipeline all cleared, whether or not it was loaded before.
C18_UnloadClearsAll ==
    \A k \in Stages :
        admin_response = AdminOk(UnloadEndpoint(k), UnloadedMessage(k)) =>
            /\ stage_pipeline[k] = Unloaded
            /\ stage_model[k] = Unloaded
            /\ stage_tokenizer[k] = Unloaded

\* C19: a load or unload of a stage never overlaps a generation on that
\* stage: from the readiness check of a request for a stage to the end of
\* its generation on it, no load or unload call runs and the stage's
\* tokenizer, model and pipeline stay as the check found them.
C19_NoTransitionDuringGeneration ==
    /\ [](\A k \in Stages :
            pc = PcGen(k) =>
                stage_pipeline[k] # Unloaded /\ stage_tokenizer[k] # Unloaded)
    /\ [][\A k \in Stages :
            (pc \in {PcStage(k), PcGen(k)} /\ ~Skip(k)) =>
                /\ stage_pipeline'[k] = stage_pipeline[k]
                /\ stage_model'[k] = stage_model[k]
                /\ stage_tokenizer'[k] = stage_tokenizer[k]
                /\ admin_response' = admin_response
                /\ backend_loads' = backend_loads
                /\ request' = request]_vars

\* stage 1 was loaded by a load call and is generating for a request
C19_Witness ==
    /\ pc = "gen1"
    /\ admin_response = AdminOk(LoadEndpoint(1), LoadedMessage(1))
    /\ backend_loads = LoadCalls(1)
    /\ Generated(1)

(***************************************************************************)
(* Claims about TTSEngine                                                  *)
(***************************************************************************)
\* C15: when load_model raises, at whichever of its steps (constructing
\* the model, listing its voices, checking the default voice), the engine
\* is left unloaded: is_loaded is false afterwards.
C15_FailedLoadLeavesUnloaded ==
    (engine_call.op = "load_model" /\ engine_call.raised # "none") => ~is_loaded

\* C20: synthesize called while the engine is not loaded raises the
\* model-not-loaded error whatever the text, the voice and the speed are,
\* before it validates the voice or preprocesses the text, and without a
\* call of the audio backend.
C20_NotLoadedFirst ==
    engine_call.op = "synthesize" =>
        /\ engine_model = Unloaded =>
              /\ engine_call.raised = "ModelNotLoadedError"
              /\ engine_call.steps = <<"is_loaded">>
              /\ engine_call.backend = <<>>
              /\ engine_call.result = NoResult
        /\ engine_call.raised = "ModelNotLoadedError" => engine_model = Unloaded

\* synthesize was called on an unloaded engine with a text that cannot be
\* preprocessed and a voice that does not exist
C20_Witness ==
    /\ engine_call.op = "synthesize"
    /\ engine_model = Unloaded
    /\ engine_call.raised = "ModelNotLoadedError"
    /\ engine_call.args.preprocess
    /\ OnlyWhiteSpace(engine_call.args.text)
    /\ engine_call.args.voice = Some("zz_none")
    /\ engine_call.args.speed = Some(150)

\* a step of lifespan or of a handler of the text-processing service
ServiceStep == <<model_vars, admin_vars>>' # <<model_vars, admin_vars>>

\* C17: loading is idempotent: a load call for a stage, or load_model of the
\* TTS engine, that finds it loaded makes no backend load call and leaves
\* the model, the tokenizer or voices and the pipeline as they are; a load
\* call that succeeds on an unloaded one leaves it loaded.
C17_LoadIdempotent ==
    [][/\ \A k \in Stages :
            (ServiceStep /\ admin_response'.endpoint = LoadEndpoint(k)) =>
                IF stage_pipeline[k] # Unloaded
                THEN /\ backend_loads' = <<>>
                     /\ model_vars' = model_vars
                     /\ admin_response'.success
                ELSE /\ backend_loads' # <<>>
                     /\ admin_response'.success =>
                          /\ stage_pipeline'[k] # Unloaded
                          /\ stage_model'[k] # Unloaded
                          /\ stage_tokenizer'[k] # Unloaded
                          /\ backend_loads' = LoadCalls(k)
       /\ (eng_vars' # eng_vars /\ engine_call'.op = "load_model") =>
                IF engine_model # Unloaded
                THEN /\ engine_call'.backend = <<>>
                     /\ engine_call'.raised = "none"
                     /\ engine_model' = engine_model
                     /\ available_voices' = available_voices
                     /\ default_voice' = default_voice
                ELSE /\ engine_call'.backend # <<>>
                     /\ engine_call'.raised = "none" =>
                          /\ engine_model' # Unloaded
                          /\ available_voices' # None
                          /\ InList(default_voice', available_voices')]_vars

\* stage 1 and the engine are loaded, and the last load call for each found
\* it loaded
C17_Witness ==
    /\ stage_pipeline[1] # Unloaded
    /\ admin_response = AdminOk(LoadEndpoint(1), LoadedMessage(1))
    /\ backend_loads = <<>>
    /\ engine_model # Unloaded
    /\ available_voices # None
    /\ engine_call.op = "load_model"
    /\ engine_call.backend = <<>>

(***************************************************************************)
(* Claims about what the request-serving operations do after a failed load *)
(***************************************************************************)
\* a step of process_text
ProcessStep == process_vars' # process_vars
\* a step that is a call of TTSEngine.synthesize
SynthesizeStep == eng_vars' # eng_vars /\ engine_call'.op = "synthesize"
\* a step that is a call of POST /generate of the first TTS service
GenerateStep ==
    /\ tts_phase = "serving"
    /\ tts_vars' # tts_vars
    /\ tts_response'.endpoint = "/generate"

\* process_text makes no load call and leaves the handles of both stages as
\* they are; synthesize leaves the engine's model and voices as they are and
\* does not construct a model
NoLoadByProcessOrSynthesize ==
    /\ ProcessStep => model_vars' = model_vars /\ backend_loads' = backend_loads
    /\ SynthesizeStep =>
          /\ engine_model' = engine_model
          /\ available_voices' = available_voices
          /\ ~InList("Kokoro", engine_call'.backend)

\* C16 as stated: after a model load has failed, no request-serving
\* operation (process, synthesize, generate) retries the load on its own:
\* a model that is not loaded when the request starts is not loaded when it
\* ends, and the request makes no load call.
C16_NoRetryByRequests ==
    [][/\ NoLoadByProcessOrSynthesize
       /\ (GenerateStep /\ kokoro_model = Unloaded) =>
              /\ tts_load_calls' = <<>>
              /\ kokoro_model' = Unloaded]_vars

\* C16 as amended: process and synthesize never load a model on their own,
\* and a stage or the engine gets loaded only by lifespan or an explicit
\* load call; generate of the first TTS service calls the load exactly when
\* no model is loaded at its start, once, and if that load fails too the
\* request is answered with status 500 and the model stays unloaded; a
\* loaded model is left as it is.
C16_OnlyGenerateRetries ==
    [][/\ NoLoadByProcessOrSynthesize
       /\ \A k \in Stages :
            (stage_pipeline[k] = Unloaded /\ stage_pipeline'[k] # Unloaded) =>
                \/ phase = "boot"
                \/ admin_response'.endpoint = LoadEndpoint(k)
       /\ (engine_model = Unloaded /\ engine_model' # Unloaded) =>
                engine_call'.op = "load_model"
       /\ GenerateStep =>
            /\ tts_load_calls' # <<>> <=> kokoro_model = Unloaded
            /\ Len(tts_load_calls') <= 1
            /\ kokoro_model # Unloaded => kokoro_model' = kokoro_model
            /\ tts_load_calls' = <<"raise">> =>
                  /\ kokoro_model' = Unloaded
                  /\ tts_response'.status_code = 500
            /\ tts_response'.status_code = 200 => kokoro_model' # Unloaded]_vars

\* the load at startup failed, and a generate request loaded the model
\* itself and answered with audio
C16_Witness ==
    /\ tts_phase = "serving"
    /\ tts_response.endpoint = "/generate"
    /\ tts_response.status_code = 200
    /\ tts_load_calls = <<"Kokoro">>
    /\ kokoro_model = "Kokoro"

(***************************************************************************)
(* Claims about the arguments and the failures of TTSEngine.synthesize     *)
(***************************************************************************)
\* the last call was synthesize on a loaded engine
SynthesizedLoaded == engine_call.op = "synthesize" /\ engine_model # Unloaded

\* the voice that call used: line 348
UsedVoice ==
    IF engine_call.args.voice = NoArg \/ engine_call.args.voice = Some("")
    THEN default_voice
    ELSE engine_call.args.voice[1]

\* C21: synthesize called on a loaded engine with a voice that is not among
\* its voices raises VoiceNotFoundError, with a message that lists the first
\* voices, at most 10, and does not call the backend; called with one of
\* its voices it passes the validation of the voice.
C21_VoiceValidation ==
    (SynthesizedLoaded /\ engine_call.args.voice \notin {NoArg, Some("")}) =>
        IF available_voices # None /\ InList(UsedVoice, available_voices)
        THEN /\ engine_call.raised \notin {"VoiceNotFoundError", "TypeError"}
             /\ Len(engine_call.steps) > 2
        ELSE /\ engine_call.raised = "VoiceNotFoundError"
             /\ engine_call.backend = <<>>
             /\ engine_call.result.kind = "message"
             /\ Len(engine_call.result.listed) <= 10

\* a speed below 0.5 or above 2.0
OutsideRange(speed) == speed # NoArg /\ (speed[1] < 50 \/ speed[1] > 200)

\* C22 as stated: synthesize called with a speed outside [0.5, 2.0] fails
\* and calls no generation.
C22_SpeedChecked ==
    (engine_call.op = "synthesize" /\ OutsideRange(engine_call.args.speed)) =>
        /\ engine_call.raised # "none"
        /\ engine_call.backend = <<>>

\* C22 as amended: POST /synthesize answers a request whose speed is outside
\* [0.5, 2.0] with status 422 without calling the engine with it, and does
\* not answer 422 to an otherwise valid request whose speed is inside the
\* range or omitted; the engine called by the API therefore only sees speeds
\* of the range.  TTSEngine.synthesize itself does not check the speed: a
\* call that returns has used the speed it was given, the default speed
\* when none was given.
C22_ApiChecksSpeed ==
    /\ api_response.endpoint = "/synthesize" =>
          /\ OutsideRange(api_request.speed) =>
                /\ api_response.status_code = 422
                /\ engine_call.op = "synthesize" =>
                        engine_call.args.speed # api_request.speed
          /\ (~OutsideRange(api_request.speed) /\ Strip(api_request.text) # <<>>) =>
                api_response.status_code # 422
    /\ (api_phase = "serving" /\ engine_call.op = "synthesize") =>
          ~OutsideRange(engine_call.args.speed)
    /\ (engine_call.op = "synthesize" /\ engine_call.raised = "none") =>
          engine_call.result.speed =
             IF engine_call.args.speed = NoArg THEN default_speed
             ELSE engine_call.args.speed[1]

\* a loaded service answered 422 to a request with a text and the speed 3.0
C22_Witness ==
    /\ api_response.endpoint = "/synthesize"
    /\ api_response.status_code = 422
    /\ api_request.speed = Some(300)
    /\ api_request.text = Chars("Hi there.")
    /\ tts_engine # Unloaded
    /\ is_loaded

\* the backend failed in the last call of synthesize: create raised, or
\* returned what the engine cannot use
BackendFailed ==
    /\ engine_call.op = "synthesize"
    /\ engine_call.backend = <<"create">>
    /\ engine_call.created.raises \/ engine_call.created.sample_rate = 0

\* C23: a failure of the backend during generation leaves synthesize as the
\* engine's own TTSError, never as the backend's exception class, and never
\* with a returned result; whenever create was called, synthesize either
\* returns the audio or raises TTSError.
C23_BackendFailureWrapped ==
    /\ BackendFailed =>
          /\ engine_call.raised = "TTSError"
          /\ engine_call.result = NoResult
    /\ (engine_call.op = "synthesize" /\ engine_call.backend = <<"create">>) =>
          /\ engine_call.raised \in {"none", "TTSError"}
          /\ engine_call.raised = "none" <=> engine_call.result # NoResult

\* create raised in a call of synthesize that had validated the voice and
\* preprocessed the text
C23_Witness ==
    /\ BackendFailed
    /\ engine_call.created.raises
    /\ engine_call.steps = <<"is_loaded", "validate_voice", "preprocess_text", "create">>
    /\ engine_call.raised = "TTSError"

(***************************************************************************)
(* Further claims about TextPreprocessor.clean_text                        *)
(***************************************************************************)
\* C24: for "Results show (Smith, 2020) a 65% +- 5% effect [1,2]." (with the
\* plus-minus sign) and citation removal, clean_text returns a text without
\* "(Smith, 2020)", without "[1,2]" and without the plus-minus sign, which
\* is strictly shorter than the input.
C24_ResultsSentence ==
    (pp_pc # "ready" /\ text = ResultsSentence /\ remove_citations) =>
        /\ ~first_call.raised
        /\ ~Contains(first_call.value, SmithCitation)
        /\ ~Contains(first_call.value, Chars("[1,2]"))
        /\ ~Contains(first_call.value, <<PLUSMINUS>>)
        /\ Len(first_call.value) < Len(text)

\* the text as the earlier categories (citations, URLs, emails) leave it to
\* the later ones, with citation removal: the value of cleaned after line 98
AfterEarlier(s) ==
    ApplySteps(<<"citations_parens", "citations_brackets", "et_al", "urls", "emails">>, s)

\* C25: with citation removal, a text that clean_text returns has no match
\* of a pattern of an earlier category (parenthetical citation, bracketed
\* citation, URL, email) that the later categories created: a pattern
\* without a match in the text as the earlier categories left it has no
\* match in the returned text.
C25_NoReintroduction ==
    (pp_pc # "ready" /\ remove_citations /\ ~first_call.raised) =>
        \A r \in {citations_parens, citations_brackets, urls, emails} :
            ~Search(r, AfterEarlier(text)) => ~Search(r, first_call.value)

\* C26: for a text with a typesetting command that has a braced argument of
\* prose, clean_text removes the command name and the braces and keeps the
\* text of the argument.
C26_ArgumentKept ==
    (pp_pc # "ready" /\ text = BoldSentence) =>
        /\ ~first_call.raised
        /\ ~Contains(first_call.value, Chars("\\textbf"))
        /\ ~Contains(first_call.value, Chars("{"))
        /\ ~Contains(first_call.value, Chars("}"))
        /\ Contains(first_call.value, Chars("bold text"))

(***************************************************************************)
(* Claims about the speed of the generated audio                           *)
(***************************************************************************)
\* the last /generate was answered with audio made by FallbackTTS
FallbackAnswered(model, resp) ==
    /\ model = "FallbackTTS"
    /\ resp.endpoint = "/generate"
    /\ resp.status_code = 200

ExcludableNames ==
    {Chars("references"), Chars("bibliography"), Chars("citations"),
     Chars("appendix"), Chars("supplementary material"),
     Chars("acknowledgments"), Chars("acknowledgements")}

\* h reads name from position i on, whatever the case of its letters
NamedAt(h, i, name) ==
    /\ i + Len(name) - 1 <= Len(h)
    /\ \A j \in 1..Len(name) : LowerChar(h[i + j - 1]) = name[j]

\* after its leading white space, h begins with an excludable section name
BeginsWithExcludable(h) ==
    \E i \in 1..Len(h) :
        /\ \A j \in 1..(i - 1) : h[j] \in WhiteSpace
        /\ h[i] \notin WhiteSpace
        /\ \E name \in ExcludableNames : NamedAt(h, i, name)

\* C28: a call of should_skip_section returns true exactly when the
\* heading, lower-cased and stripped of surrounding white space, starts
\* with an excludable section name, and changes nothing but its result.
C28_SkipIffPrefix ==
    [][/\ skip_call'.value <=> BeginsWithExcludable(heading)
       /\ UNCHANGED <<text, remove_citations, first_call, second_call, pp_pc,
                      heading, svc_vars, eng_vars, api_vars, tts_vars>>]_vars

\* C28 witness: a heading with white space before and text after an
\* upper-case section name was classified as excludable
C28_Witness ==
    /\ skip_call.called
    /\ skip_call.value
    /\ heading = Chars("\n\tREFERENCES A")

(***************************************************************************)
(* Claims about the handles of a stage                                     *)
(***************************************************************************)
\* C29: in every reachable state of the text-processing service, a stage
\* whose pipeline is set has its tokenizer and its model set, and a /process
\* handler that passed the readiness check of a stage and is generating
\* with it finds the stage's tokenizer set.
C29_PipelineImpliesTokenizer ==
    \A k \in Stages :
        /\ stage_pipeline[k] # Unloaded =>
                stage_tokenizer[k] # Unloaded /\ stage_model[k] # Unloaded
        /\ pc = PcGen(k) => stage_tokenizer[k] # Unloaded

\* C29 witness: stage 1 is generating for a request while a load of
\* stage 2 has failed after its tokenizer was set
C29_Witness ==
    /\ pc = "gen1"
    /\ stage_pipeline[1] # Unloaded
    /\ stage_tokenizer[2] # Unloaded
    /\ stage_pipeline[2] = Unloaded

(***************************************************************************)
(* Claims about the default voice                                          *)
(***************************************************************************)
\* C30: after every load_model that returns, default_voice is one of the
\* available voices, and a synthesize without a voice that follows it does
\* not raise VoiceNotFoundError.
C30_DefaultVoiceAvailable ==
    [][/\ (engine_call'.op = "load_model" /\ engine_call'.raised = "none") =>
              /\ available_voices' # None
              /\ InList(default_voice', available_voices')
       /\ (/\ engine_call.op = "load_model"
           /\ engine_call.raised = "none"
           /\ engine_call'.op = "synthesize"
           /\ engine_call'.args.voice = NoArg) =>
              engine_call'.raised # "VoiceNotFoundError"]_vars
====
